---------------------------- MODULE Spec2Model ----------------------------
(***************************************************************************)
(* Model of the elf_loader crate: Elf::try_parse, Elf::try_load and        *)
(* LoadedElf::try_reloc on x86_64 (little endian, usize = u64).            *)
(*                                                                         *)
(* Buffers are sequences of bytes.  Every integer of the program that may  *)
(* exceed 31 bits (u32, u64, usize, pointers) is kept as its little-endian *)
(* byte sequence, exactly as it lies in the buffers, and is added,         *)
(* compared and divided byte by byte at the width of the Rust type.        *)
(***************************************************************************)
EXTENDS Integers, Sequences, FiniteSets, TLC

VARIABLES
    raw,        \* the ELF buffer handed to Elf::try_parse
    rawAddr,    \* raw.as_ptr() as usize
    pc,         \* position of the caller / of the running try_reloc
    elf,        \* <<Elf>> while the caller holds a parsed Elf, else << >>
    loaded,     \* <<LoadedElf>> while the caller holds one, else << >>
    ready,      \* <<ReadyElf>> while the caller holds one, else << >>
    res,        \* what the last call returned: [op, err]
    mem,        \* the destination buffer
    memAddr,    \* mem.as_ptr() as usize
    memL,       \* mem as the last successful try_load left it
    rl,         \* locals of the running try_reloc
    calls,      \* invocations of the protection callback by the current try_reloc: [req, ok]
    wlog,       \* RELATIVE entries the current try_reloc has stored for: [off, addend]
    rawReads,   \* byte ranges of raw read so far: [lo, n]
    panicked,   \* a slice index, slice range or modulo was out of range
    acc         \* what the accessor call in progress returned: [op, err, val, reads]

vars == <<raw, rawAddr, pc, elf, loaded, ready, res, mem, memAddr, memL, rl,
          calls, wlog, rawReads, panicked, acc>>

---------------------------------------------------------------------------
(* Fixed-width integers as little-endian byte sequences.                   *)

RECURSIVE LE(_, _)
\* the k-byte little-endian image of the natural number n (n < 2^31)
LE(n, k) == IF k = 0 THEN << >> ELSE <<n % 256>> \o LE(n \div 256, k - 1)

U64(n) == LE(n, 8)

\* k bytes of value b
Fill(b, k) == [i \in 1..k |-> b]

Zeros(k) == Fill(0, k)

\* b denotes a number below 2^31, which the model can hold as an integer
Fits(b) == \A i \in 1..Len(b) : (i > 4 => b[i] = 0) /\ (i = 4 => b[i] < 128)

RECURSIVE Val(_)
\* the number a byte sequence denotes (only for Fits(b))
Val(b) == IF Len(b) = 0 THEN 0 ELSE b[1] + 256 * Val(Tail(b))

RECURSIVE AddC(_, _, _)
\* ripple-carry sum of two equally long byte sequences; the last element is the carry out
AddC(a, b, c) ==
    IF Len(a) = 0 THEN <<c>>
    ELSE LET s == a[1] + b[1] + c
         IN  <<s % 256>> \o AddC(Tail(a), Tail(b), s \div 256)

RECURSIVE SubB(_, _, _)
\* ripple-borrow difference a - b (mod 256^Len(a))
SubB(a, b, c) ==
    IF Len(a) = 0 THEN << >>
    ELSE LET d == a[1] - b[1] - c
         IN  <<d % 256>> \o SubB(Tail(a), Tail(b), IF d < 0 THEN 1 ELSE 0)

RECURSIVE Lt(_, _)
\* a < b, both of the same width
Lt(a, b) ==
    IF Len(a) = 0 THEN FALSE
    ELSE LET n == Len(a)
         IN  IF a[n] # b[n] THEN a[n] < b[n]
             ELSE Lt(SubSeq(a, 1, n - 1), SubSeq(b, 1, n - 1))

Le(a, b) == ~Lt(b, a)

None == [some |-> FALSE]
Some(x) == [some |-> TRUE, v |-> x]

\* u64::wrapping_add
wrapping_add(a, b) == SubSeq(AddC(a, b, 0), 1, Len(a))

\* u64::checked_add
checked_add(a, b) ==
    LET s == AddC(a, b, 0)
    IN  IF s[Len(a) + 1] = 1 THEN None ELSE Some(SubSeq(s, 1, Len(a)))

\* u64::checked_mul of two numbers whose product stays below 2^31
\* (every use multiplies a struct size by a u16, which cannot overflow a u64)
checked_mul(x, n) == Some(U64(x * n))

\* `x as u32`: the low four bytes, kept at the common width
AsU32(x) == SubSeq(x, 1, 4) \o Zeros(Len(x) - 4)

RECURSIVE Shl1(_, _)
\* shift left by one bit, c coming in at the bottom
Shl1(a, c) ==
    IF Len(a) = 0 THEN << >>
    ELSE <<(2 * a[1] + c) % 256>> \o Shl1(Tail(a), (2 * a[1] + c) \div 256)

\* bit i (1 = least significant) of a
Bit(a, i) == (a[((i - 1) \div 8) + 1] \div (2 ^ ((i - 1) % 8))) % 2

RECURSIVE ModBits(_, _, _, _)
\* binary long division: the remainder of the top bits of a seen so far
ModBits(a, m, i, r) ==
    IF i = 0 \/ Len(r) = 0 THEN r
    ELSE LET r2 == Shl1(r, Bit(a, i))
         IN  ModBits(a, m, i - 1, IF Le(m, r2) THEN SubB(r2, m, 0) ELSE r2)

RECURSIVE ModBytes(_, _, _, _)
\* byte-wise long division by a number m below 2^23
ModBytes(a, m, i, r) ==
    IF i = 0 THEN r ELSE ModBytes(a, m, i - 1, (r * 256 + a[i]) % m)

\* a % m for m # 0 (m below 2^63: the divisors are u32 values and alignments)
Mod(a, m) ==
    IF Fits(m) /\ Val(m) < 8388608
      THEN LE(ModBytes(a, Val(m), Len(a), 0), Len(a))
      ELSE ModBits(a, m, 8 * Len(a), Zeros(Len(a)))

IsZero(a) == \A i \in 1..Len(a) : a[i] = 0

U32_MAX == <<255, 255, 255, 255, 0, 0, 0, 0>>

\* an offset beyond every buffer of the model
Far == 1048576

\* a as a natural number if it is at most n, else n + 1
Clip(a, n) == IF Fits(a) /\ Val(a) <= n THEN Val(a) ELSE n + 1

\* the k bytes of buf from byte offset off (a number); bytes past the end read as 0
Rd(buf, off, k) == [i \in 1..k |-> IF off + i <= Len(buf) THEN buf[off + i] ELSE 0]


---------------------------------------------------------------------------
(* elf.rs: constants and raw structures.                                   *)

EI_CLASS == 4
EI_DATA == 5
ET_DYN == 3
ELFMAG == <<127, 69, 76, 70>>
SELFMAG == 4
ELFCLASS64 == 2
ELFDATA2LSB == 1
ELFDATA2MSB == 2
EM_X86_64 == 62
EM_AARCH64 == 183
EM_RISCV == 243

PF_X == 1
PF_W == 2
PF_R == 4
PF_RW == 6
PF_RX == 5

PT_NULL == LE(0, 4)
PT_LOAD == LE(1, 4)
PT_DYNAMIC == LE(2, 4)
PT_GNU_STACK == <<81, 229, 116, 100>>
PT_GNU_RELRO == <<82, 229, 116, 100>>

DT_REL == 17
DT_RELSZ == 18
DT_RELENT == 19
DT_RELA == 7
DT_RELASZ == 8
DT_RELAENT == 9

R_X86_64_NONE == LE(0, 4)
R_X86_64_COPY == LE(5, 4)
R_X86_64_RELATIVE == LE(8, 4)

\* mem::size_of and mem::align_of of the #[repr(C)] structures
SizeOfElfFileHeader == 64
SizeOfElfProgramHeader == 56
SizeOfElfDyn == 16
SizeOfElfRel == 16
SizeOfElfRela == 24
AlignOfElfStruct == 8

\* the fields of the ElfFileHeader lying at the start of buf
ElfFileHeader(buf) ==
    [ e_ident     |-> Rd(buf, 0, 16),
      e_type      |-> Val(Rd(buf, 16, 2)),
      e_machine   |-> Val(Rd(buf, 18, 2)),
      e_entry     |-> Rd(buf, 24, 8),
      e_phoff     |-> Rd(buf, 32, 8),
      e_ehsize    |-> Val(Rd(buf, 52, 2)),
      e_phentsize |-> Val(Rd(buf, 54, 2)),
      e_phnum     |-> Val(Rd(buf, 56, 2)) ]

\* the fields of the ElfProgramHeader lying at byte offset off of buf
ElfProgramHeader(buf, off) ==
    [ p_type   |-> Rd(buf, off, 4),
      p_flags  |-> Rd(buf, off + 4, 4),
      p_offset |-> Rd(buf, off + 8, 8),
      p_vaddr  |-> Rd(buf, off + 16, 8),
      p_filesz |-> Rd(buf, off + 32, 8),
      p_memsz  |-> Rd(buf, off + 40, 8),
      p_align  |-> Rd(buf, off + 48, 8) ]

ElfDyn(buf, off) == [ d_tag |-> Rd(buf, off, 8), d_val |-> Rd(buf, off + 8, 8) ]

ElfRel(buf, off) == [ r_offset |-> Rd(buf, off, 8), r_info |-> Rd(buf, off + 8, 8) ]

ElfRela(buf, off) ==
    [ r_offset |-> Rd(buf, off, 8),
      r_info   |-> Rd(buf, off + 8, 8),
      r_addend |-> Rd(buf, off + 16, 8) ]

\* r_type: the low 32 bits of r_info
r_type(info) == SubSeq(info, 1, 4)

---------------------------------------------------------------------------
(* parse.rs                                                                *)

\* byte offset (as a number) of element i of a slice of size-byte elements that
\* starts at byte offset off of a buffer; offsets no buffer of the model reaches
\* are clipped to one such offset
ElemOff(off, i, size) == Clip(off, Far) + i * size

check_is_native_endian(tag) ==
    IF tag = ELFDATA2LSB THEN "Ok" ELSE "BadEndian"

check_isa(tag) ==
    IF tag = EM_X86_64 THEN "Ok" ELSE "BadIsa"

\* try_load_header with the class check ahead of the e_ehsize check
try_load_header_class_first(buf, addr) ==
    IF Len(buf) < SizeOfElfFileHeader \/ Lt(U32_MAX, U64(Len(buf)))
      THEN "BadBufferSize"
    ELSE IF ~IsZero(Mod(addr, U64(AlignOfElfStruct)))
      THEN "BadBufferAlignment"
    ELSE IF SubSeq(ElfFileHeader(buf).e_ident, 1, SELFMAG) # ELFMAG
      THEN "BufferNotElf"
    ELSE IF ElfFileHeader(buf).e_ident[EI_CLASS + 1] # ELFCLASS64
      THEN "NotElf64"
    ELSE IF ElfFileHeader(buf).e_ehsize # SizeOfElfFileHeader
      THEN "BadHeaderSize"
    ELSE IF check_is_native_endian(ElfFileHeader(buf).e_ident[EI_DATA + 1]) # "Ok"
      THEN check_is_native_endian(ElfFileHeader(buf).e_ident[EI_DATA + 1])
    ELSE IF ElfFileHeader(buf).e_type # ET_DYN
      THEN "NotPic"
    ELSE check_isa(ElfFileHeader(buf).e_machine)

try_load_header(buf, addr) ==
    LET header == ElfFileHeader(buf)
    IN  IF Len(buf) < SizeOfElfFileHeader \/ Lt(U32_MAX, U64(Len(buf)))
          THEN "BadBufferSize"
        ELSE IF ~IsZero(Mod(addr, U64(AlignOfElfStruct)))
          THEN "BadBufferAlignment"
        ELSE IF SubSeq(header.e_ident, 1, SELFMAG) # ELFMAG
          THEN "BufferNotElf"
        ELSE IF header.e_ehsize # SizeOfElfFileHeader
          THEN "BadHeaderSize"
        ELSE IF header.e_ident[EI_CLASS + 1] # ELFCLASS64
          THEN "NotElf64"
        ELSE IF check_is_native_endian(header.e_ident[EI_DATA + 1]) # "Ok"
          THEN check_is_native_endian(header.e_ident[EI_DATA + 1])
        ELSE IF header.e_type # ET_DYN
          THEN "NotPic"
        ELSE check_isa(header.e_machine)

\* ph_step with an entry check that accepts e_entry = p_vaddr + p_memsz
ph_step_entry_at_end(buf, ph, ent, st) ==
    LET fend == checked_add(ph.p_offset, ph.p_filesz)
        vend == checked_add(ph.p_vaddr, ph.p_memsz)
        end  == AsU32(wrapping_add(ph.p_vaddr, ph.p_memsz))
        hit  == /\ ~IsZero(ent)
                /\ ph.p_type = PT_LOAD
                /\ ph.p_flags[1] % 2 = PF_X
                /\ Le(ph.p_vaddr, ent)
                /\ Le(ent, wrapping_add(ph.p_vaddr, ph.p_memsz))
    IN  IF (IF fend.some THEN Le(U64(Len(buf)), fend.v) ELSE TRUE)
          THEN [st EXCEPT !.err = "BadPhRange"]
        ELSE IF (IF vend.some THEN Lt(U32_MAX, vend.v) ELSE TRUE)
                \/ Lt(U32_MAX, ph.p_memsz)
          THEN [st EXCEPT !.err = "BadVmemRange"]
        ELSE IF Lt(ph.p_memsz, ph.p_filesz)
          THEN [st EXCEPT !.err = "PhSmallerThanVmem"]
        ELSE IF ~Le(ph.p_align, U32_MAX)
          THEN [st EXCEPT !.err = "ExcessiveAlignment"]
        ELSE [ err          |-> "Ok",
               end_offset   |-> IF Lt(st.end_offset, end) THEN end ELSE st.end_offset,
               max_align    |-> IF Lt(st.max_align, AsU32(ph.p_align))
                                  THEN AsU32(ph.p_align) ELSE st.max_align,
               entry_in_exe |-> st.entry_in_exe \/ hit ]

\* one iteration of the loop of check_ph_ranges on header ph; st holds the
\* loop's variables
ph_step(buf, ph, ent, st) ==
    LET fend == checked_add(ph.p_offset, ph.p_filesz)
        vend == checked_add(ph.p_vaddr, ph.p_memsz)
        end  == AsU32(wrapping_add(ph.p_vaddr, ph.p_memsz))
        hit  == /\ ~IsZero(ent)
                /\ ph.p_type = PT_LOAD
                /\ ph.p_flags[1] % 2 = PF_X
                /\ Le(ph.p_vaddr, ent)
                /\ Lt(ent, wrapping_add(ph.p_vaddr, ph.p_memsz))
    IN  IF (IF fend.some THEN Le(U64(Len(buf)), fend.v) ELSE TRUE)
          THEN [st EXCEPT !.err = "BadPhRange"]
        ELSE IF (IF vend.some THEN Lt(U32_MAX, vend.v) ELSE TRUE)
                \/ Lt(U32_MAX, ph.p_memsz)
          THEN [st EXCEPT !.err = "BadVmemRange"]
        ELSE IF Lt(ph.p_memsz, ph.p_filesz)
          THEN [st EXCEPT !.err = "PhSmallerThanVmem"]
        ELSE IF ~Le(ph.p_align, U32_MAX)
          THEN [st EXCEPT !.err = "ExcessiveAlignment"]
        ELSE [ err          |-> "Ok",
               end_offset   |-> IF Lt(st.end_offset, end) THEN end ELSE st.end_offset,
               max_align    |-> IF Lt(st.max_align, AsU32(ph.p_align))
                                  THEN AsU32(ph.p_align) ELSE st.max_align,
               entry_in_exe |-> st.entry_in_exe \/ hit ]

RECURSIVE ph_loop(_, _, _, _, _)
\* the loop of check_ph_ranges from element i of hdrs on
ph_loop(buf, hdrs, ent, i, st) ==
    IF i = hdrs.len \/ st.err # "Ok" THEN st
    ELSE ph_loop(buf, hdrs, ent, i + 1,
                 ph_step(buf, ElfProgramHeader(buf, ElemOff(hdrs.off, i, SizeOfElfProgramHeader)),
                         ent, st))

\* check_ph_ranges with max_align starting at 0
check_ph_ranges_align_from_zero(hdrs, buf, ent) ==
    LET st == ph_loop(buf, hdrs, ent, 0,
                      [ err |-> "Ok", end_offset |-> U64(0), max_align |-> U64(0),
                        entry_in_exe |-> FALSE ])
    IN  IF st.err # "Ok" THEN st
        ELSE IF ~IsZero(ent) /\ ~st.entry_in_exe THEN [st EXCEPT !.err = "BadEntry"]
        ELSE st

check_ph_ranges(hdrs, buf, ent) ==
    LET st == ph_loop(buf, hdrs, ent, 0,
                      [ err |-> "Ok", end_offset |-> U64(0), max_align |-> U64(1),
                        entry_in_exe |-> FALSE ])
    IN  IF st.err # "Ok" THEN st
        ELSE IF ~IsZero(ent) /\ ~st.entry_in_exe THEN [st EXCEPT !.err = "BadEntry"]
        ELSE st

\* the bound check of the program-header table: TRUE when the table is refused
ph_table_overflows(hoff, len, l) ==
    LET prod == checked_mul(SizeOfElfProgramHeader, len)
        sum  == IF prod.some THEN checked_add(prod.v, hoff) ELSE None
    IN  IF sum.some THEN Le(l, sum.v) ELSE TRUE

try_load_program_headers(hdr, buf, addr) ==
    LET hoff == hdr.e_phoff
        ptr  == wrapping_add(addr, hoff)
        len  == hdr.e_phnum
        l    == U64(Len(buf))
        hdrs == [off |-> hoff, len |-> len]
        chk  == check_ph_ranges(hdrs, buf, hdr.e_entry)
    IN  IF hdr.e_phentsize # SizeOfElfProgramHeader
          THEN [err |-> "BadProgramHeaderSize"]
        ELSE IF ph_table_overflows(hoff, len, l)
          THEN [err |-> "ProgramHeaderOverflow"]
        ELSE IF ~IsZero(Mod(ptr, U64(AlignOfElfStruct)))
          THEN [err |-> "BadBufferAlignment"]
        ELSE IF chk.err # "Ok"
          THEN [err |-> chk.err]
        ELSE [ err       |-> "Ok",
               mem_len   |-> chk.end_offset,
               mem_align |-> chk.max_align,
               entry     |-> AsU32(hdr.e_entry),
               program_headers |-> [inner |-> hdrs] ]

try_parse_elf(buf, addr) ==
    LET h == try_load_header(buf, addr)
    IN  IF h # "Ok" THEN [err |-> h]
        ELSE try_load_program_headers(ElfFileHeader(buf), buf, addr)

\* the byte ranges of buf that try_parse_elf reads: the file header once the
\* size check has passed, and each program header the loop of check_ph_ranges
\* reaches
RECURSIVE ph_reads(_, _, _, _, _)
ph_reads(buf, hdrs, ent, i, st) ==
    IF i = hdrs.len \/ st.err # "Ok" THEN {}
    ELSE {[lo |-> wrapping_add(hdrs.off, U64(i * SizeOfElfProgramHeader)),
           n  |-> SizeOfElfProgramHeader]}
         \cup ph_reads(buf, hdrs, ent, i + 1,
                 ph_step(buf, ElfProgramHeader(buf, ElemOff(hdrs.off, i, SizeOfElfProgramHeader)),
                         ent, st))

parse_reads(buf, addr) ==
    LET hdr == ElfFileHeader(buf)
    IN  IF try_load_header(buf, addr) = "BadBufferSize" THEN {}
        ELSE IF try_load_header(buf, addr) = "BadBufferAlignment" THEN {}
        ELSE {[lo |-> U64(0), n |-> SizeOfElfFileHeader]} \cup
             IF try_load_header(buf, addr) # "Ok"
                \/ hdr.e_phentsize # SizeOfElfProgramHeader
                \/ ph_table_overflows(hdr.e_phoff, hdr.e_phnum, U64(Len(buf)))
                \/ ~IsZero(Mod(wrapping_add(addr, hdr.e_phoff), U64(AlignOfElfStruct)))
               THEN {}
               ELSE ph_reads(buf, [off |-> hdr.e_phoff, len |-> hdr.e_phnum], hdr.e_entry, 0,
                             [ err |-> "Ok", end_offset |-> U64(0), max_align |-> U64(1),
                               entry_in_exe |-> FALSE ])

---------------------------------------------------------------------------
(* lib.rs: program headers, protections, the segment stack, Slice32.       *)

\* from_flags giving read-write to a segment with the W and X bits
from_flags_keeps_write(flags) ==
    IF (flags[1] \div PF_W) % 2 = 1 THEN "RW"
    ELSE IF flags[1] % 8 = PF_R THEN "RO"
    ELSE "RX"

\* from_flags giving read-only protection for flags without R, W and X
from_flags_none_is_ro(flags) ==
    LET f == flags[1] % 8
    IN  IF f = PF_R \/ f = 0 THEN "RO"
        ELSE IF f = PF_W \/ f = PF_RW THEN "RW"
        ELSE "RX"

\* SegmentProtection::from_flags
from_flags(flags) ==
    LET f == flags[1] % 8      \* flags & (PF_R | PF_W | PF_X)
    IN  IF f = PF_R THEN "RO"
        ELSE IF f = PF_W \/ f = PF_RW THEN "RW"
        ELSE IF f = PF_X \/ f = PF_RX THEN "RX"
        ELSE "RX"

\* SegmentKind::from_kind
from_kind(kind) ==
    IF kind = PT_DYNAMIC THEN Some("Dynamic")
    ELSE IF kind = PT_GNU_RELRO THEN Some("Relro")
    ELSE IF kind = PT_GNU_STACK THEN None
    ELSE IF kind = PT_LOAD THEN Some("Load")
    ELSE IF kind = PT_NULL THEN None
    ELSE Some("Unsupported")

\* Slice32::new
Slice32(start, len) == [start |-> start, len |-> len]

\* ProgramHeader::from_elf; panic tells that the range of copy_from is no
\* range of the buffer (the slice index of line 438 panics)
from_elf(ph, buf) ==
    LET kind == from_kind(ph.p_type)
        lo   == ph.p_offset
        hi   == wrapping_add(ph.p_offset, ph.p_filesz)
    IN  IF ~kind.some THEN None
        ELSE Some([ kind       |-> kind.v,
                    protection |-> from_flags(ph.p_flags),
                    load_range |-> Slice32(AsU32(ph.p_vaddr), AsU32(ph.p_memsz)),
                    copy_from  |-> [off |-> lo, len |-> ph.p_filesz],
                    panic      |-> Lt(hi, lo) \/ Lt(U64(Len(buf)), hi) ])

\* SegmentStack::try_push; the stack is kept as data[..len]
SegmentStackCapacity == 8

\* try_push refusing the tenth entry instead of the ninth
try_push_nine(segs, ph) ==
    IF Len(segs) > SegmentStackCapacity THEN [err |-> "TooManySegments", segs |-> segs]
    ELSE [ err  |-> "Ok",
           segs |-> Append(segs, [range |-> ph.load_range, protect |-> ph.protection]) ]

try_push(segs, ph) ==
    IF Len(segs) >= SegmentStackCapacity THEN [err |-> "TooManySegments", segs |-> segs]
    ELSE [ err  |-> "Ok",
           segs |-> Append(segs, [range |-> ph.load_range, protect |-> ph.protection]) ]

\* Slice32::to_byte_range of a Slice32<u8>: start .. start + len, wrapping at 32 bits
to_byte_range(r) ==
    [ start |-> r.start,
      end   |-> AsU32(wrapping_add(r.start, r.len)) ]

\* convert keeping the length in bytes
convert_keeps_len(r) == Slice32(r.start, r.len)

\* Slice32::<u8>::convert::<ElfDyn>
convert(r) ==
    Slice32(r.start,
            AsU32([i \in 1..8 |-> (r.len[i] \div SizeOfElfDyn)
                                  + SizeOfElfDyn * (IF i < 8 THEN r.len[i + 1] % SizeOfElfDyn ELSE 0)]))

---------------------------------------------------------------------------
(* load.rs                                                                 *)

\* buf with bytes written over it from byte offset off on
Overwrite(buf, off, bytes) ==
    [i \in 1..Len(buf) |->
        IF off < i /\ i <= off + Len(bytes) THEN bytes[i - off] ELSE buf[i]]

\* check_buffer_requirements_and_zerofill with the alignment test ahead of the
\* size test
check_buffer_alignment_first(e, m, addr) ==
    IF IsZero(e.mem_align) THEN [err |-> "Panic", mem |-> m, panic |-> TRUE]
    ELSE IF ~IsZero(Mod(addr, e.mem_align))
      THEN [err |-> "BadBufferAlignment", mem |-> m, panic |-> FALSE]
    ELSE IF Lt(U64(Len(m)), e.mem_len) THEN [err |-> "BadBufferSize", mem |-> m, panic |-> FALSE]
    ELSE [err |-> "Ok", mem |-> Zeros(Len(m)), panic |-> FALSE]

check_buffer_requirements_and_zerofill(e, m, addr) ==
    IF Lt(U64(Len(m)), e.mem_len) THEN [err |-> "BadBufferSize", mem |-> m, panic |-> FALSE]
    ELSE IF IsZero(e.mem_align) THEN [err |-> "Panic", mem |-> m, panic |-> TRUE]
    ELSE IF ~IsZero(Mod(addr, e.mem_align))
      THEN [err |-> "BadBufferAlignment", mem |-> m, panic |-> FALSE]
    ELSE [err |-> "Ok", mem |-> Zeros(Len(m)), panic |-> FALSE]

\* load_segment copying into the bytes of m that are still zero only
load_segment_keeps_earlier(ph, buf, m) ==
    [ mem |-> [ i \in 1..Len(m) |->
                  IF /\ Clip(ph.load_range.start, Far) < i
                     /\ i <= Clip(ph.load_range.start, Far) + Clip(ph.copy_from.len, Far)
                     /\ m[i] = 0
                    THEN Rd(buf, Clip(ph.copy_from.off, Far), Clip(ph.copy_from.len, Far))
                           [i - Clip(ph.load_range.start, Far)]
                    ELSE m[i] ],
      ub  |-> FALSE ]

\* load_segment; ub tells that the unchecked slice leaves the buffer or is
\* shorter than the bytes to copy
load_segment(ph, buf, m) ==
    LET start == Clip(ph.load_range.start, Far)
        len   == Clip(ph.load_range.len, Far)
        src   == Rd(buf, Clip(ph.copy_from.off, Far), Clip(ph.copy_from.len, Far))
    IN  IF start + len > Len(m) \/ len < Len(src) THEN [mem |-> m, ub |-> TRUE]
        ELSE [mem |-> Overwrite(m, start, src), ub |-> FALSE]

\* one iteration of the loop of try_load_elf, on the raw header hd
load_step(buf, hd, st) ==
    LET p    == from_elf(hd, buf)
        ph   == p.v
        push == try_push(st.segs, ph)
        ld   == load_segment(ph, buf, st.mem)
        rd   == st.reads \cup {[lo |-> ph.copy_from.off, n |-> Clip(ph.copy_from.len, Far)]}
    IN  IF ~p.some THEN st
        ELSE IF ph.panic THEN [st EXCEPT !.err = "Panic", !.panic = TRUE]
        ELSE IF ph.kind = "Load" THEN
               IF push.err # "Ok" THEN [st EXCEPT !.err = push.err]
               ELSE [st EXCEPT !.segs = push.segs, !.mem = ld.mem, !.ub = ld.ub,
                               !.reads = rd]
        ELSE IF ph.kind = "Dynamic" THEN
               IF st.dyns.some THEN [st EXCEPT !.err = "MultipleDynamicSegments"]
               ELSE IF push.err # "Ok" THEN [st EXCEPT !.err = push.err]
               ELSE [st EXCEPT !.segs = push.segs, !.mem = ld.mem, !.ub = ld.ub,
                               !.reads = rd, !.dyns = Some(convert(ph.load_range))]
        ELSE IF ph.kind = "Relro" THEN
               IF push.err # "Ok" THEN [st EXCEPT !.err = push.err]
               ELSE [st EXCEPT !.segs = push.segs]
        ELSE st

RECURSIVE load_loop(_, _, _, _)
\* the loop of try_load_elf over the program headers, from element i on
load_loop(buf, hdrs, i, st) ==
    IF i = hdrs.len \/ st.err # "Ok" \/ st.ub THEN st
    ELSE load_loop(buf, hdrs, i + 1,
            load_step(buf, ElfProgramHeader(buf, ElemOff(hdrs.off, i, SizeOfElfProgramHeader)),
                      [st EXCEPT !.reads = @ \cup
                          {[lo |-> wrapping_add(hdrs.off, U64(i * SizeOfElfProgramHeader)),
                            n  |-> SizeOfElfProgramHeader]}]))

\* what try_load_elf returns when its loop over the program headers ended in st
load_result(e, st) ==
    IF st.err # "Ok" \/ st.ub
      THEN [ err |-> st.err, mem |-> st.mem, reads |-> st.reads, panic |-> st.panic,
             ub |-> st.ub ]
    ELSE IF ~st.dyns.some
      THEN [ err |-> "NoDynamicSegments", mem |-> st.mem, reads |-> st.reads,
             panic |-> FALSE, ub |-> FALSE ]
    ELSE [ err |-> "Ok", mem |-> st.mem, reads |-> st.reads, panic |-> FALSE,
           ub |-> FALSE,
           loaded |-> [ dyns |-> st.dyns.v, mem_align |-> e.mem_align,
                        entry |-> e.entry, protect |-> st.segs ] ]

\* try_load_elf after check_buffer_requirements_and_zerofill returned chk
load_checked(e, buf, chk) ==
    IF chk.err # "Ok"
      THEN [ err |-> chk.err, mem |-> chk.mem, reads |-> {}, panic |-> chk.panic,
             ub |-> FALSE ]
    ELSE load_result(e, load_loop(buf, e.program_headers.inner, 0,
                                  [ err |-> "Ok", segs |-> << >>, dyns |-> None,
                                    mem |-> chk.mem, reads |-> {}, panic |-> FALSE,
                                    ub |-> FALSE ]))

\* try_load_elf(elf, mem): the error, the buffer as the call leaves it and the
\* fields of the LoadedElf
try_load_elf(e, buf, m, addr) ==
    load_checked(e, buf, check_buffer_requirements_and_zerofill(e, m, addr))

---------------------------------------------------------------------------
(* reloc.rs                                                                *)

\* base_to_offset
base_to_offset(align, base) ==
    IF IsZero(align) THEN [err |-> "Panic", panic |-> TRUE]
    ELSE IF IsZero(Mod(base, align)) THEN [err |-> "Ok", off |-> base, panic |-> FALSE]
    ELSE [err |-> "BadBaseAddressAlignment", panic |-> FALSE]

\* Slice32::<ElfDyn>::try_slice: the alignment check of the dynamic array
try_slice(dyns, addr) ==
    IF ~IsZero(Mod(wrapping_add(addr, dyns.start), U64(AlignOfElfStruct)))
      THEN "BadDynAlignment" ELSE "Ok"

\* one iteration of the loop of find_rels_and_relas, on entry d
dyn_step(d, st) ==
    IF d.d_tag = U64(DT_REL) THEN [st EXCEPT !.rel_table_off = d.d_val]
    ELSE IF d.d_tag = U64(DT_RELSZ) THEN [st EXCEPT !.rel_table_len = d.d_val]
    ELSE IF d.d_tag = U64(DT_RELENT) THEN
           IF U64(SizeOfElfRel) # d.d_val THEN [st EXCEPT !.err = "BadRelSize"] ELSE st
    ELSE IF d.d_tag = U64(DT_RELA) THEN [st EXCEPT !.rela_table_off = d.d_val]
    ELSE IF d.d_tag = U64(DT_RELASZ) THEN [st EXCEPT !.rela_table_len = d.d_val]
    ELSE IF d.d_tag = U64(DT_RELAENT) THEN
           IF U64(SizeOfElfRela) # d.d_val THEN [st EXCEPT !.err = "BadRelaSize"] ELSE st
    ELSE st

RECURSIVE dyn_loop_stops_at_null(_, _, _, _)
\* the loop of find_rels_and_relas ending at the first entry with tag 0
dyn_loop_stops_at_null(m, dyns, i, st) ==
    IF U64(i) = dyns.len \/ st.err # "Ok" THEN st
    ELSE IF IsZero(ElfDyn(m, ElemOff(dyns.start, i, SizeOfElfDyn)).d_tag) THEN st
    ELSE dyn_loop_stops_at_null(m, dyns, i + 1,
                                dyn_step(ElfDyn(m, ElemOff(dyns.start, i, SizeOfElfDyn)), st))

RECURSIVE dyn_loop(_, _, _, _)
dyn_loop(m, dyns, i, st) ==
    IF U64(i) = dyns.len \/ st.err # "Ok" THEN st
    ELSE dyn_loop(m, dyns, i + 1,
                  dyn_step(ElfDyn(m, ElemOff(dyns.start, i, SizeOfElfDyn)), st))

\* slice_rel::<T>, T of the given size
slice_rel(m, addr, off, len, size) ==
    LET end == checked_add(off, len)
    IN  IF IsZero(off) THEN [err |-> "Ok", off |-> off, n |-> 0]
        ELSE IF (IF end.some THEN Le(U64(Len(m)), end.v) ELSE TRUE)
          THEN [err |-> "BadRelRelaTableRange"]
        ELSE IF ~IsZero(Mod(wrapping_add(addr, off), U64(AlignOfElfStruct)))
          THEN [err |-> "BadRelRelaTableAlignment"]
        ELSE [err |-> "Ok", off |-> off, n |-> Val(len) \div size]

\* slice_rel_rela slicing the RELA table before the REL table
slice_rel_rela_rela_first(m, addr, rel_off, rel_len, rela_off, rela_len) ==
    LET rel_mem  == slice_rel(m, addr, rel_off, rel_len, SizeOfElfRel)
        rela_mem == slice_rel(m, addr, rela_off, rela_len, SizeOfElfRela)
    IN  IF rela_mem.err # "Ok" THEN [err |-> rela_mem.err]
        ELSE IF rel_mem.err # "Ok" THEN [err |-> rel_mem.err]
        ELSE [ err |-> "Ok", rels |-> [off |-> rel_mem.off, n |-> rel_mem.n],
               relas |-> [off |-> rela_mem.off, n |-> rela_mem.n] ]

\* slice_rel_rela
slice_rel_rela(m, addr, rel_off, rel_len, rela_off, rela_len) ==
    LET rel_mem  == slice_rel(m, addr, rel_off, rel_len, SizeOfElfRel)
        rela_mem == slice_rel(m, addr, rela_off, rela_len, SizeOfElfRela)
    IN  IF rel_mem.err # "Ok" THEN [err |-> rel_mem.err]
        ELSE IF rela_mem.err # "Ok" THEN [err |-> rela_mem.err]
        ELSE [ err |-> "Ok", rels |-> [off |-> rel_mem.off, n |-> rel_mem.n],
               relas |-> [off |-> rela_mem.off, n |-> rela_mem.n] ]

\* find_rels_and_relas
find_rels_and_relas(m, addr, dyns) ==
    LET st == dyn_loop(m, dyns, 0,
                       [ err |-> "Ok", rel_table_off |-> U64(0), rel_table_len |-> U64(0),
                         rela_table_off |-> U64(0), rela_table_len |-> U64(0) ])
    IN  IF st.err # "Ok" THEN [err |-> st.err]
        ELSE slice_rel_rela(m, addr, st.rel_table_off, st.rel_table_len,
                            st.rela_table_off, st.rela_table_len)

\* apply_rel with a check of r_offset before it gives up
apply_rel_checks_offset(rel, mem_len, base) ==
    IF Le(U64(mem_len), rel.r_offset) THEN "BadRelOffset" ELSE "UnsupportedRelArch"

\* apply_rel
apply_rel(rel, mem_len, base) == "UnsupportedRelArch"

\* apply_rela_x86_64 storing the addend without the base
apply_rela_x86_64_addend_only(ty, a, b) ==
    IF ty = R_X86_64_COPY \/ ty = R_X86_64_NONE THEN [err |-> "Ok", store |-> None]
    ELSE IF ty = R_X86_64_RELATIVE THEN [err |-> "Ok", store |-> Some(a)]
    ELSE [err |-> "UnsupportedRelaType", store |-> None]

\* apply_rela_x86_64: the error, and the value stored at r if one is stored
apply_rela_x86_64(ty, a, b) ==
    IF ty = R_X86_64_COPY \/ ty = R_X86_64_NONE THEN [err |-> "Ok", store |-> None]
    ELSE IF ty = R_X86_64_RELATIVE THEN [err |-> "Ok", store |-> Some(wrapping_add(a, b))]
    ELSE [err |-> "UnsupportedRelaType", store |-> None]

\* apply_rela
apply_rela(rela, mem_len, base) ==
    IF Le(U64(mem_len), rela.r_offset) THEN [err |-> "BadRelaOffset", store |-> None]
    ELSE apply_rela_x86_64(r_type(rela.r_info), rela.r_addend, base)

\* the part of relocate_segments before its two loops
relocate_segments_tables(le, m, addr) ==
    LET al == try_slice(le.dyns, addr)
    IN  IF al # "Ok" THEN [err |-> al] ELSE find_rels_and_relas(m, addr, le.dyns)

\* protect_call walking the protect list from its last entry to its first
protect_call_backwards(le, m, addr, v_base, k) ==
    [ prot    |-> IF k = 0 THEN "RO" ELSE le.protect[Len(le.protect) + 1 - k].protect,
      p_base  |-> addr,
      v_base  |-> v_base,
      mem_len |-> Len(m),
      range   |-> IF k = 0 THEN [start |-> U64(0), end |-> U64(Len(m))]
                  ELSE to_byte_range(le.protect[Len(le.protect) + 1 - k].range) ]

RECURSIVE rela_loop(_, _, _, _), rela_turn(_, _, _, _, _), rela_stored(_, _, _, _, _, _)
\* `for rela in relas` of relocate_segments from entry i on, every entry read
\* from the buffer as the stores before it left it; stray tells that a store
\* would end past the buffer
rela_loop(m, relas, base, i) ==
    IF i = relas.n THEN [err |-> "Ok", mem |-> m, stray |-> FALSE]
    ELSE rela_turn(m, relas, base, i, ElfRela(m, ElemOff(relas.off, i, SizeOfElfRela)))

\* the turn of rela_loop on the entry rela
rela_turn(m, relas, base, i, rela) ==
    rela_stored(m, relas, base, i, Clip(rela.r_offset, Far), apply_rela(rela, Len(m), base))

\* the turn of rela_loop for an entry at offset off for which apply_rela gave a
rela_stored(m, relas, base, i, off, a) ==
    IF a.err # "Ok" THEN [err |-> a.err, mem |-> m, stray |-> FALSE]
    ELSE IF ~a.store.some THEN rela_loop(m, relas, base, i + 1)
    ELSE IF off + 8 > Len(m) THEN [err |-> "Ok", mem |-> m, stray |-> TRUE]
    ELSE rela_loop(Overwrite(m, off, a.store.v), relas, base, i + 1)

\* relocate_segments with the tables t: the REL loop fails at its first entry
relocate_with_tables(m, base, t) ==
    IF t.err # "Ok" THEN [err |-> t.err, mem |-> m, stray |-> FALSE]
    ELSE IF t.rels.n > 0
      THEN [ err |-> apply_rel(ElfRel(m, ElemOff(t.rels.off, 0, SizeOfElfRel)), Len(m), base),
             mem |-> m, stray |-> FALSE ]
    ELSE rela_loop(m, t.relas, base, 0)

\* relocate_segments(elf, off) on the buffer m at address addr
relocate_segments(le, m, addr, base) ==
    relocate_with_tables(m, base, relocate_segments_tables(le, m, addr))

\* the arguments of call number k of protect_segments (0: the initial request)
protect_call(le, m, addr, v_base, k) ==
    [ prot    |-> IF k = 0 THEN "RO" ELSE le.protect[k].protect,
      p_base  |-> addr,
      v_base  |-> v_base,
      mem_len |-> Len(m),
      range   |-> IF k = 0 THEN [start |-> U64(0), end |-> U64(Len(m))]
                  ELSE to_byte_range(le.protect[k].range) ]

---------------------------------------------------------------------------
(* ELF images the caller may hand in.                                      *)

\* a 64-byte file header with the given fields
MkEhdr(f) ==
    f.magic \o <<f.class, f.data>> \o Zeros(10)
    \o LE(f.type, 2) \o LE(f.machine, 2) \o LE(1, 4)
    \o f.entry \o f.phoff \o Zeros(8) \o Zeros(4)
    \o LE(f.ehsize, 2) \o LE(f.phentsize, 2) \o LE(f.phnum, 2) \o Zeros(6)

\* a 56-byte program header with the given fields
MkPhdr(p) ==
    p.type \o LE(p.flags, 4) \o p.offset \o p.vaddr \o Zeros(8)
    \o p.filesz \o p.memsz \o p.align

RECURSIVE Flatten(_)
Flatten(ss) == IF Len(ss) = 0 THEN << >> ELSE Head(ss) \o Flatten(Tail(ss))

GoodEhdr ==
    [ magic |-> ELFMAG, class |-> ELFCLASS64, data |-> ELFDATA2LSB, type |-> ET_DYN,
      machine |-> EM_X86_64, entry |-> U64(0), phoff |-> U64(SizeOfElfFileHeader),
      ehsize |-> SizeOfElfFileHeader, phentsize |-> SizeOfElfProgramHeader,
      phnum |-> 1 ]

Ph(type, flags, offset, vaddr, filesz, memsz, align) ==
    [ type |-> type, flags |-> flags, offset |-> U64(offset), vaddr |-> U64(vaddr),
      filesz |-> U64(filesz), memsz |-> U64(memsz), align |-> U64(align) ]

BIG(n) == SubB(Zeros(8), U64(n), 0)    \* 2^64 - n

\* the header checks of try_parse, numbered in the order of the crate's code
HeaderChecks == 1..11

\* an image with one good program header, made to violate the checks in V
ViolatingImage(V) ==
    LET hdr == [ GoodEhdr EXCEPT
                   !.magic     = IF 3 \in V THEN <<0, 69, 76, 70>> ELSE @,
                   !.ehsize    = IF 4 \in V THEN 52 ELSE @,
                   !.class     = IF 5 \in V THEN 1 ELSE @,
                   !.data      = IF 6 \in V THEN ELFDATA2MSB ELSE @,
                   !.type      = IF 7 \in V THEN 2 ELSE @,
                   !.machine   = IF 8 \in V THEN EM_AARCH64 ELSE @,
                   !.phentsize = IF 9 \in V THEN 32 ELSE @,
                   !.phoff     = IF 10 \in V /\ 11 \in V THEN BIG(3)
                                 ELSE IF 10 \in V THEN U64(4096)
                                 ELSE IF 11 \in V THEN U64(60)
                                 ELSE @ ]
        img == MkEhdr(hdr) \o MkPhdr(Ph(PT_LOAD, PF_RX, 0, 0, 8, 8, 1)) \o Zeros(8)
    IN  [ raw  |-> IF 1 \in V THEN SubSeq(img, 1, 63) ELSE img,
          addr |-> IF 2 \in V THEN U64(4097) ELSE U64(4096) ]

\* an image of k good program headers and pad trailing bytes whose header
\* announces n program headers at offset hoff
TableImage(k, pad, n, hoff) ==
    [ raw  |-> MkEhdr([GoodEhdr EXCEPT !.phnum = n, !.phoff = hoff])
               \o Flatten([i \in 1..k |-> MkPhdr(Ph(PT_LOAD, PF_R, 0, 0, 8, 8, 1))])
               \o Zeros(pad),
      addr |-> U64(4096) ]

\* the most program headers of a table image
MaxTable == 2

ParseImages ==
    { ViolatingImage(V) : V \in SUBSET HeaderChecks }
    \cup { TableImage(k, pad, n, hoff) :
             k \in 0..MaxTable, pad \in {0, 8}, n \in 0..MaxTable,
             hoff \in { U64(0), U64(8), U64(64), U64(72), U64(120), U64(128), U64(176),
                        BIG(8), BIG(56), BIG(112) } }

\* a dynamic table and a RELA table as bytes
MkDyn(tag, val) == U64(tag) \o val

MkRela(off, type, addend) == U64(off) \o type \o Zeros(4) \o addend

\* Images for the whole pipeline.  File layout: the file header, a 48-byte
\* dynamic table at 64, a 48-byte RELA table at 112, 16 bytes of data at 160,
\* the program headers at 176, 8 more bytes.  Memory layout of the standard headers: the
\* dynamic table at 0, the RELA table at 48, the data at 96.
PipeImage(phs, dyns, relas, entry) ==
    [ raw  |-> MkEhdr([GoodEhdr EXCEPT !.phnum = Len(phs), !.phoff = U64(176),
                                       !.entry = U64(entry)])
               \o Flatten(dyns) \o Flatten(relas)
               \o <<17, 34, 51, 68, 85, 102, 119, 136, 153, 170, 187, 204, 221, 238, 255, 16>>
               \o Flatten([k \in 1..Len(phs) |-> MkPhdr(phs[k])])
               \o Zeros(8),
      addr |-> U64(4096) ]

PhDynamic == Ph(PT_DYNAMIC, PF_RW, 64, 0, 48, 48, 8)
PhLoad == Ph(PT_LOAD, PF_RW, 112, 48, 64, 64, 8)
PhRelro == Ph(PT_GNU_RELRO, PF_R, 160, 96, 16, 16, 1)

A1 == <<1, 2, 3, 4, 5, 6, 7, 8>>
A2 == BIG(1)

DynRela == << MkDyn(DT_RELA, U64(48)), MkDyn(DT_RELASZ, U64(48)), MkDyn(DT_RELAENT, U64(24)) >>
DynRel == << MkDyn(DT_REL, U64(48)), MkDyn(DT_RELSZ, U64(16)), MkDyn(DT_RELENT, U64(16)) >>
DynNone == << MkDyn(0, U64(0)), MkDyn(0, U64(0)), MkDyn(0, U64(0)) >>

RelaDisjoint == << MkRela(96, R_X86_64_RELATIVE, A1), MkRela(104, R_X86_64_RELATIVE, A2) >>

\* program-header tables, each with the standard dynamic and RELA tables
PhTables ==
    { <<PhLoad, PhDynamic>>,
      \* an executable segment holding the entry point
      <<PhLoad, PhDynamic, Ph(PT_LOAD, PF_RX, 0, 112, 16, 16, 16)>>,
      <<PhLoad>>,
      <<PhDynamic, PhLoad, PhDynamic>>,
      \* eight and nine recorded segments
      <<PhLoad, PhDynamic, PhRelro, PhRelro, PhRelro, PhRelro, PhRelro, PhRelro>>,
      <<PhLoad, PhDynamic, PhRelro, PhRelro, PhRelro, PhRelro, PhRelro, PhRelro, PhLoad>>,
      \* a second DYNAMIC header after eight recorded segments
      <<PhLoad, PhDynamic, PhRelro, PhRelro, PhRelro, PhRelro, PhRelro, PhRelro, PhDynamic>>,
      \* a DYNAMIC segment whose size in memory is no multiple of 16
      <<PhLoad, Ph(PT_DYNAMIC, PF_RW, 64, 0, 48, 56, 8)>>,
      \* segments that overlap: zero-initialised memory and file bytes on the same range
      <<PhLoad, PhDynamic, Ph(PT_LOAD, PF_RW, 0, 96, 0, 16, 1), Ph(PT_LOAD, PF_R, 0, 100, 8, 8, 1)>>,
      <<Ph(PT_LOAD, PF_R, 0, 100, 8, 8, 1), PhLoad, PhDynamic>>,
      \* headers the iterator skips or load ignores, and a RELRO range outside every segment
      <<Ph(PT_NULL, 0, 0, 0, 0, 0, 0), PhLoad, Ph(PT_GNU_STACK, PF_RW, 0, 0, 0, 0, 16),
        PhDynamic, Ph(LE(7, 4), PF_R, 0, 0, 8, 8, 1), Ph(PT_GNU_RELRO, PF_R, 0, 112, 0, 16, 1)>>,
      \* byte alignment only
      <<Ph(PT_LOAD, PF_RW, 112, 48, 64, 64, 1), Ph(PT_DYNAMIC, PF_RW, 64, 0, 48, 48, 1)>> }

\* RELA tables, each with the standard program headers
RelaTables ==
    { RelaDisjoint,
      \* overlapping targets
      << MkRela(96, R_X86_64_RELATIVE, A1), MkRela(100, R_X86_64_RELATIVE, A2) >>,
      \* a target that starts inside a 112-byte buffer and ends past it
      << MkRela(104, R_X86_64_NONE, A1), MkRela(107, R_X86_64_RELATIVE, A1) >>,
      \* a target that is the r_offset field of the next entry
      << MkRela(72, R_X86_64_RELATIVE, BIG(8092)), MkRela(104, R_X86_64_RELATIVE, A2) >>,
      \* a target that is the r_offset field of its own entry, and one that is the
      \* value of the DT_RELA entry of the dynamic table
      << MkRela(48, R_X86_64_RELATIVE, BIG(8096)), MkRela(104, R_X86_64_RELATIVE, A2) >>,
      << MkRela(8, R_X86_64_RELATIVE, BIG(8120)), MkRela(104, R_X86_64_RELATIVE, A2) >>,
      << MkRela(96, R_X86_64_COPY, A1), MkRela(96, LE(7, 4), A1) >>,
      << MkRela(96, R_X86_64_RELATIVE, A1), MkRela(112, R_X86_64_NONE, A1) >> }

PipeImages ==
    { PipeImage(phs, DynRela, RelaDisjoint, IF Len(phs) = 3 /\ phs[3].flags = PF_RX THEN 116 ELSE 0) :
        phs \in PhTables }
    \cup { PipeImage(<<PhLoad, PhDynamic>>, DynRela, relas, 0) : relas \in RelaTables }
    \cup { PipeImage(<<PhLoad, PhDynamic>>, dyns, RelaDisjoint, 0) : dyns \in {DynRel, DynNone} }

\* Images for try_reloc.  File layout: the file header, a dynamic table of four
\* entries at 64, a 48-byte RELA table at 128, 16 bytes of data at 176, the
\* program headers at 192, 8 more bytes.  Memory layout: the dynamic table at 0,
\* of which the DYNAMIC segment takes dynsz bytes, the RELA table at 64, the data
\* at 112; mem_len is 128 and mem_align 4.  more: headers after the two standard
\* ones.
RelocImage(dyns, relas, dynsz, more) ==
    [ raw  |-> MkEhdr([GoodEhdr EXCEPT !.phnum = 2 + Len(more), !.phoff = U64(192)])
               \o Flatten(dyns) \o Flatten(relas)
               \o <<17, 34, 51, 68, 85, 102, 119, 136, 153, 170, 187, 204, 221, 238, 255, 16>>
               \o MkPhdr(Ph(PT_LOAD, PF_RW, 128, 64, 64, 64, 4))
               \o MkPhdr(Ph(PT_DYNAMIC, PF_RW, 64, 0, dynsz, dynsz, 4))
               \o Flatten([k \in 1..Len(more) |-> MkPhdr(more[k])])
               \o Zeros(8),
      addr |-> U64(4096) ]

\* a dynamic entry try_reloc has no interest in (DT_NULL)
DynNull == MkDyn(0, U64(0))

\* the dynamic table of a RELA table that takes the 48 bytes at 64
DynStandard ==
    << MkDyn(DT_RELA, U64(64)), MkDyn(DT_RELASZ, U64(48)), MkDyn(DT_RELAENT, U64(24)), DynNull >>

\* dynamic tables with a REL table at 64: one entry, two entries, and one entry
\* beside a RELA table at the same place
DynRelTables ==
    { << MkDyn(DT_REL, U64(64)), MkDyn(DT_RELSZ, U64(16)), MkDyn(DT_RELENT, U64(16)), DynNull >>,
      << MkDyn(DT_REL, U64(64)), MkDyn(DT_RELSZ, U64(32)), DynNull, DynNull >>,
      << MkDyn(DT_REL, U64(64)), MkDyn(DT_RELSZ, U64(16)),
         MkDyn(DT_RELA, U64(64)), MkDyn(DT_RELASZ, U64(48)) >> }

\* dynamic tables for the scan: no table at all, wrong entry sizes in both
\* orders, alone, after a DT_NULL entry and before a table out of range, tags
\* that occur twice, a REL table absent by its zero offset
DynScanTables ==
    { << DynNull, DynNull, DynNull, DynNull >>,
      << MkDyn(DT_RELENT, U64(15)), MkDyn(DT_RELAENT, U64(23)), DynNull, DynNull >>,
      << MkDyn(DT_RELAENT, U64(23)), MkDyn(DT_RELENT, U64(15)), DynNull, DynNull >>,
      << MkDyn(DT_RELA, U64(64)), MkDyn(DT_RELASZ, U64(48)), DynNull, MkDyn(DT_RELAENT, U64(23)) >>,
      << DynNull, MkDyn(DT_RELENT, U64(24)), DynNull, DynNull >>,
      << MkDyn(DT_RELENT, U64(15)), MkDyn(DT_RELA, U64(200)), DynNull, DynNull >>,
      << MkDyn(DT_RELA, U64(64)), MkDyn(DT_RELASZ, U64(48)), MkDyn(DT_RELA, U64(0)), DynNull >>,
      << MkDyn(DT_RELA, U64(0)), MkDyn(DT_RELASZ, U64(24)),
         MkDyn(DT_RELA, U64(64)), MkDyn(DT_RELASZ, U64(48)) >>,
      << MkDyn(DT_RELASZ, U64(48)), MkDyn(DT_RELA, U64(64)), MkDyn(DT_RELASZ, U64(24)), DynNull >>,
      << MkDyn(DT_REL, U64(0)), MkDyn(DT_RELSZ, U64(16)),
         MkDyn(DT_RELA, U64(64)), MkDyn(DT_RELASZ, U64(48)) >> }

\* dynamic tables for the table checks: RELA tables that end at 128 and at 136,
\* one whose end wraps around, sizes that are no multiple of 24, an empty table
\* at the end of mem_len, tables at addresses that are no multiple of 8, and a
\* REL table and a RELA table that fail different checks
DynRangeTables ==
    { << MkDyn(DT_RELA, U64(64)), MkDyn(DT_RELASZ, U64(64)), MkDyn(DT_RELAENT, U64(24)), DynNull >>,
      << MkDyn(DT_RELA, U64(64)), MkDyn(DT_RELASZ, U64(72)), MkDyn(DT_RELAENT, U64(24)), DynNull >>,
      << MkDyn(DT_RELA, U64(64)), MkDyn(DT_RELASZ, BIG(8)), DynNull, DynNull >>,
      << MkDyn(DT_RELA, U64(64)), MkDyn(DT_RELASZ, U64(40)), DynNull, DynNull >>,
      << MkDyn(DT_RELA, U64(120)), MkDyn(DT_RELASZ, U64(8)), DynNull, DynNull >>,
      << MkDyn(DT_RELA, U64(68)), MkDyn(DT_RELASZ, U64(24)), MkDyn(DT_RELAENT, U64(24)), DynNull >>,
      << MkDyn(DT_RELA, U64(67)), MkDyn(DT_RELASZ, U64(200)), DynNull, DynNull >>,
      << MkDyn(DT_REL, U64(68)), MkDyn(DT_RELSZ, U64(16)), MkDyn(DT_RELA, U64(200)), DynNull >>,
      << MkDyn(DT_REL, U64(200)), MkDyn(DT_RELA, U64(68)), MkDyn(DT_RELASZ, U64(24)), DynNull >> }

\* a RELA entry whose r_info holds a symbol index in its high 32 bits
MkRelaSym(off, type, sym, addend) == U64(off) \o type \o LE(sym, 4) \o addend

\* RELA tables: two stores side by side; an entry of every type at the first
\* offset past a 128-byte buffer; an entry of unknown type after a store; an
\* offset past every buffer; a store that starts inside a 128-byte buffer and ends
\* past it; a symbol index beside the type
RelocRelaTables ==
    { << MkRela(112, R_X86_64_RELATIVE, A1), MkRela(120, R_X86_64_RELATIVE, A2) >>,
      << MkRela(112, R_X86_64_NONE, A1), MkRela(128, R_X86_64_COPY, A1) >>,
      << MkRela(112, R_X86_64_COPY, A1), MkRela(128, R_X86_64_NONE, A1) >>,
      << MkRela(120, R_X86_64_RELATIVE, A2), MkRela(128, R_X86_64_RELATIVE, A1) >>,
      << MkRela(112, R_X86_64_RELATIVE, A1), MkRela(120, LE(7, 4), A1) >>,
      << MkRela(128, LE(7, 4), A1), MkRela(120, R_X86_64_RELATIVE, A1) >>,
      << MkRela(112, R_X86_64_RELATIVE, A2), BIG(8) \o R_X86_64_RELATIVE \o Zeros(4) \o A1 >>,
      << MkRela(200, LE(7, 4), A1), MkRela(112, R_X86_64_RELATIVE, A1) >>,
      << MkRela(112, R_X86_64_NONE, A1), MkRela(123, R_X86_64_RELATIVE, A1) >>,
      << MkRelaSym(112, R_X86_64_RELATIVE, 1, A1), MkRelaSym(120, LE(7, 4), 8, A2) >> }

\* a segment without any of the R, W and X flags, and a RELRO range whose flags
\* hold other bits only
PhNoFlags == Ph(PT_LOAD, 0, 176, 112, 16, 16, 1)
PhOtherFlags == Ph(PT_GNU_RELRO, 8, 176, 112, 0, 16, 1)

RelocImages ==
    { RelocImage(dyns, << MkRela(112, R_X86_64_RELATIVE, A1), MkRela(120, R_X86_64_RELATIVE, A2) >>,
                 64, << >>) : dyns \in DynScanTables \cup DynRangeTables }
    \cup { RelocImage(dyns, relas, 64, << >>) :
             dyns \in DynRelTables,
             relas \in { << MkRela(112, R_X86_64_RELATIVE, A1), MkRela(120, R_X86_64_RELATIVE, A2) >>,
                         << MkRela(200, LE(7, 4), A1), MkRela(112, R_X86_64_RELATIVE, A1) >> } }
    \cup { RelocImage(DynStandard, relas, 64, << >>) : relas \in RelocRelaTables }
    \* a DYNAMIC segment of 56 bytes: the fourth entry is no part of it
    \cup { RelocImage(<< MkDyn(DT_RELA, U64(64)), MkDyn(DT_RELASZ, U64(48)), DynNull,
                         MkDyn(DT_RELAENT, U64(23)) >>,
                      << MkRela(112, R_X86_64_RELATIVE, A1), MkRela(120, R_X86_64_RELATIVE, A2) >>,
                      56, << >>) }
    \cup { RelocImage(DynStandard,
                      << MkRela(112, R_X86_64_RELATIVE, A1), MkRela(120, R_X86_64_RELATIVE, A2) >>,
                      64, <<PhNoFlags, PhOtherFlags>>) }

\* Images for the checks of the program headers: a file header with e_entry
\* entry, the program headers phs at 64, 8 more bytes
SegImage(phs, entry) ==
    [ raw  |-> MkEhdr([GoodEhdr EXCEPT !.phnum = Len(phs), !.entry = entry])
               \o Flatten([k \in 1..Len(phs) |-> MkPhdr(phs[k])])
               \o Zeros(8),
      addr |-> U64(4096) ]

\* the length of SegImage(phs, entry) for n headers
SegLen(n) == SizeOfElfFileHeader + n * SizeOfElfProgramHeader + 8

\* 2^32 + n
Over32(n) == LE(n, 4) \o <<1, 0, 0, 0>>

\* segments for the entry check: executable at [16, 32), writable at [16, 48),
\* a DYNAMIC header with the X flag at [16, 48), execute-only at [40, 48)
PhExec == Ph(PT_LOAD, PF_RX, 0, 16, 8, 16, 8)
PhData == Ph(PT_LOAD, PF_RW, 0, 16, 8, 32, 8)
PhDynX == Ph(PT_DYNAMIC, PF_RX, 0, 16, 8, 32, 8)
PhExecOnly == Ph(PT_LOAD, PF_X, 0, 40, 8, 8, 1)

\* the most program headers of an image for the entry check
MaxEntryTable == 2

EntryTables ==
    UNION { [1..n -> {PhExec, PhData, PhDynX, PhExecOnly}] : n \in 0..MaxEntryTable }

EntryImages ==
    { SegImage(phs, e) :
        phs \in EntryTables,
        e \in { U64(0), U64(15), U64(16), U64(31), U64(32), U64(39), U64(40), U64(47),
                U64(48), Over32(16) } }

\* program-header types: the five the crate names and one it does not
PhTypes == {PT_LOAD, PT_DYNAMIC, PT_NULL, PT_GNU_STACK, PT_GNU_RELRO, LE(7, 4)}

\* file ranges [p_offset, p_offset + p_filesz) of a header of an image of len
\* bytes: at the start, ending one byte before the end, ending at the end,
\* ending past the end, empty at the end, wrapping around
FileRanges(len) ==
    { <<U64(0), U64(8)>>, <<U64(len - 9), U64(8)>>, <<U64(len - 8), U64(8)>>,
      <<U64(len - 7), U64(8)>>, <<U64(len), U64(0)>>, <<BIG(4), U64(8)>> }

\* memory ranges p_vaddr, p_memsz: small, shorter than the file range, ending
\* at 2^32 - 1, ending at 2^32, longer than 2^32 - 1, wrapping around
MemRanges ==
    { <<U64(16), U64(16)>>, <<U64(100), U64(12)>>, <<U64(16), U64(4)>>,
      <<SubB(U32_MAX, U64(8), 0), U64(8)>>, <<SubB(U32_MAX, U64(7), 0), U64(8)>>,
      <<U64(0), Over32(0)>>, <<BIG(8), U64(16)>> }

\* alignments: none, byte, 3, 8, 4096, 2^32 - 1 and 2^32
Aligns == {U64(0), U64(1), U64(3), U64(8), U64(4096), U32_MAX, Over32(0)}

PhWith(type, flags, f, v, align) ==
    [ type |-> type, flags |-> flags, offset |-> f[1], vaddr |-> v[1], filesz |-> f[2],
      memsz |-> v[2], align |-> align ]

\* one header of every type, file range, memory range and alignment, alone, or
\* before or after a good LOAD header
RangeImages ==
    { SegImage(<<PhWith(t, PF_R, f, v, a)>>, U64(0)) :
        t \in PhTypes, f \in FileRanges(SegLen(1)), v \in MemRanges, a \in Aligns }
    \cup { SegImage(<<PhWith(t, PF_R, f, <<U64(16), U64(16)>>, a), Ph(PT_LOAD, PF_R, 0, 40, 8, 24, 16)>>,
                    U64(0)) :
             t \in PhTypes, f \in FileRanges(SegLen(2)), a \in Aligns }
    \cup { SegImage(<<Ph(PT_LOAD, PF_R, 0, 40, 8, 24, 16), PhWith(t, PF_R, <<U64(0), U64(8)>>, v, a)>>,
                    U64(0)) :
             t \in PhTypes, v \in MemRanges, a \in Aligns }

\* p_flags values with other bits than R, W and X set
OtherFlagBits == {8, 65536, 16777216 + 8}

\* two headers with the same combination of the R, W and X bits, the second
\* one with other bits set too
FlagImages ==
    { SegImage(<<Ph(t, f, 0, 16, 8, 16, 8), Ph(t, f + hi, 0, 16, 8, 16, 8)>>, U64(0)) :
        t \in {PT_LOAD, PT_DYNAMIC, PT_GNU_RELRO, LE(7, 4)}, f \in 0..7, hi \in OtherFlagBits }

SegImages == EntryImages \cup RangeImages \cup FlagImages

---------------------------------------------------------------------------
(* The caller's steps.                                                     *)

NoCall == [op |-> "none", err |-> "Ok"]
NoReloc == [step |-> "none"]
NoAccess == [op |-> "none", err |-> "Ok", val |-> << >>, reads |-> {}]

InitWith(images) ==
    /\ \E im \in images : raw = im.raw /\ rawAddr = im.addr
    /\ pc = "start"
    /\ elf = << >> /\ loaded = << >> /\ ready = << >>
    /\ res = NoCall
    /\ mem = << >> /\ memAddr = U64(0) /\ memL = << >>
    /\ rl = NoReloc
    /\ calls = << >> /\ wlog = << >>
    /\ rawReads = {}
    /\ panicked = FALSE
    /\ acc = NoAccess

\* what the caller holds once try_parse has returned r
ParseReturns(r) ==
    /\ res' = [op |-> "parse", err |-> r.err]
    /\ elf' = IF r.err = "Ok"
                THEN << [ program_headers |-> r.program_headers,
                          mem_len |-> r.mem_len, mem_align |-> r.mem_align,
                          entry |-> r.entry ] >>
                ELSE << >>

\* Elf::try_parse(raw)
Parse ==
    /\ pc = "start"
    /\ ParseReturns(try_parse_elf(raw, rawAddr))
    /\ rawReads' = rawReads \cup parse_reads(raw, rawAddr)
    /\ pc' = "idle"
    /\ UNCHANGED <<raw, rawAddr, loaded, ready, mem, memAddr, memL, rl, calls, wlog,
                   panicked, acc>>

\* bytes by which the longest destination buffer exceeds mem_len
Slack == 8

\* destination buffers the caller may pass for an Elf: lengths around mem_len
MemLens(e) ==
    IF e = << >> THEN {}
    ELSE IF Fits(e[1].mem_len) /\ Val(e[1].mem_len) <= 4096
      THEN {n \in {Val(e[1].mem_len) - 1, Val(e[1].mem_len), Val(e[1].mem_len) + Slack} : n >= 0}
      ELSE {16}

MemAddrs == {U64(8192), U64(8196)}

\* what the caller holds once try_load has returned r
LoadReturns(r) ==
    /\ mem' = r.mem
    /\ memL' = r.mem
    /\ loaded' = IF r.err = "Ok" /\ ~r.ub THEN <<r.loaded>> ELSE << >>
    /\ res' = [op |-> "load", err |-> r.err]
    /\ rawReads' = rawReads \cup r.reads
    /\ panicked' = (panicked \/ r.panic)
    /\ pc' = IF r.panic THEN "panic" ELSE IF r.ub THEN "fault" ELSE "idle"

\* Elf::try_load(&self, mem), on a buffer of n bytes at address addr that holds
\* what an earlier call left in it or other bytes; a LoadedElf or ReadyElf the
\* caller still held is dropped first, which frees the buffer
Load(n, addr) ==
    /\ pc = "idle"
    /\ elf # << >>
    /\ LoadReturns(try_load_elf(elf[1], raw, IF Len(mem) = n THEN mem ELSE Fill(170, n), addr))
    /\ memAddr' = addr
    /\ ready' = << >>
    /\ rl' = NoReloc
    /\ calls' = << >>
    /\ wlog' = << >>
    /\ UNCHANGED <<raw, rawAddr, elf, acc>>

\* virtual base addresses the caller may choose
Bases == {U64(8192), U64(12289), BIG(4096)}

\* try_reloc returns: Ok(ReadyElf) or Err((mem, e))
Return(le, base, err) ==
    /\ res' = [op |-> "reloc", err |-> err]
    /\ ready' = IF err = "Ok" THEN <<[base |-> base, entry |-> le.entry]>> ELSE << >>
    /\ pc' = "idle"

\* the locals of a try_reloc that has not found its tables
reloc_locals(le, base, prot) ==
    [ le |-> le, base |-> base, prot |-> prot,
      rels |-> [off |-> U64(0), n |-> 0],
      relas |-> [off |-> U64(0), n |-> 0], i |-> 0 ]

\* try_reloc with b returned by base_to_offset and t by the table search
RelocBegins(le, base, prot, b, t) ==
    IF b.err # "Ok"
      THEN /\ Return(le, base, b.err)
           /\ rl' = reloc_locals(le, base, prot)
           /\ panicked' = (panicked \/ b.panic)
    ELSE IF t.err # "Ok"
      THEN /\ Return(le, base, t.err)
           /\ rl' = reloc_locals(le, base, prot)
           /\ UNCHANGED panicked
    ELSE /\ rl' = [reloc_locals(le, base, prot) EXCEPT !.rels = t.rels, !.relas = t.relas]
         /\ pc' = "rel"
         /\ UNCHANGED <<res, ready, panicked>>

\* try_reloc taking the LoadedElf by reference: the caller keeps it
RelocStartBorrows(base, prot) ==
    /\ pc = "idle"
    /\ loaded # << >>
    /\ RelocBegins(loaded[1], base, prot, base_to_offset(loaded[1].mem_align, base),
                   relocate_segments_tables(loaded[1], mem, memAddr))
    /\ calls' = << >>
    /\ wlog' = << >>
    /\ UNCHANGED <<raw, rawAddr, elf, loaded, mem, memAddr, memL, rawReads, acc>>

\* LoadedElf::try_reloc(self, base, prot) up to the loops of relocate_segments
RelocStart(base, prot) ==
    /\ pc = "idle"
    /\ loaded # << >>
    /\ RelocBegins(loaded[1], base, prot, base_to_offset(loaded[1].mem_align, base),
                   relocate_segments_tables(loaded[1], mem, memAddr))
    /\ loaded' = << >>
    /\ calls' = << >>
    /\ wlog' = << >>
    /\ UNCHANGED <<raw, rawAddr, elf, mem, memAddr, memL, rawReads, acc>>

\* a turn of `for rel in rels` that stores the base at the r_offset of the REL
\* entry before it gives up
RelStepStoresFirst ==
    /\ pc = "rel"
    /\ IF rl.i < rl.rels.n
         THEN /\ Return(rl.le, rl.base,
                        apply_rel(ElfRel(mem, ElemOff(rl.rels.off, rl.i, SizeOfElfRel)),
                                  Len(mem), rl.base))
              /\ mem' = Overwrite(mem,
                                  Clip(ElfRel(mem, ElemOff(rl.rels.off, rl.i, SizeOfElfRel)).r_offset,
                                       Far),
                                  rl.base)
              /\ UNCHANGED rl
         ELSE /\ pc' = "rela"
              /\ rl' = [rl EXCEPT !.i = 0]
              /\ UNCHANGED <<res, ready, mem>>
    /\ UNCHANGED <<raw, rawAddr, elf, loaded, memAddr, memL, calls, wlog, rawReads,
                   panicked, acc>>

\* a loop over rels that is followed by protect_segments at once
RelStepSkipsRelas ==
    /\ pc = "rel"
    /\ IF rl.i < rl.rels.n
         THEN /\ Return(rl.le, rl.base,
                        apply_rel(ElfRel(mem, ElemOff(rl.rels.off, rl.i, SizeOfElfRel)),
                                  Len(mem), rl.base))
              /\ UNCHANGED rl
         ELSE /\ IF rl.prot = "None"
                   THEN Return(rl.le, rl.base, "Ok")
                   ELSE /\ pc' = "protect"
                        /\ UNCHANGED <<res, ready>>
              /\ rl' = [rl EXCEPT !.i = 0]
    /\ UNCHANGED <<raw, rawAddr, elf, loaded, mem, memAddr, memL, calls, wlog, rawReads,
                   panicked, acc>>

\* one turn of `for rel in rels`
RelStep ==
    /\ pc = "rel"
    /\ IF rl.i < rl.rels.n
         THEN /\ Return(rl.le, rl.base,
                        apply_rel(ElfRel(mem, ElemOff(rl.rels.off, rl.i, SizeOfElfRel)),
                                  Len(mem), rl.base))
              /\ UNCHANGED rl
         ELSE /\ pc' = "rela"
              /\ rl' = [rl EXCEPT !.i = 0]
              /\ UNCHANGED <<res, ready>>
    /\ UNCHANGED <<raw, rawAddr, elf, loaded, mem, memAddr, memL, calls, wlog, rawReads,
                   panicked, acc>>

\* a turn that counts its store and leaves the buffer as it is
RelaAppliedWithoutStore(rela, a) ==
    IF a.err # "Ok"
      THEN /\ Return(rl.le, rl.base, a.err)
           /\ UNCHANGED <<rl, mem, wlog>>
    ELSE IF ~a.store.some
      THEN /\ rl' = [rl EXCEPT !.i = @ + 1]
           /\ UNCHANGED <<pc, res, ready, mem, wlog>>
    ELSE /\ wlog' = Append(wlog, [off |-> Val(rela.r_offset), addend |-> rela.r_addend])
         /\ rl' = [rl EXCEPT !.i = @ + 1]
         /\ UNCHANGED <<pc, res, ready, mem>>

\* the turn of `for rela in relas` on the entry rela, a being what apply_rela
\* returns for it and the value it stores.  A store that starts inside mem and
\* ends past it either lands or faults.
RelaApplied(rela, a) ==
    IF a.err # "Ok"
      THEN /\ Return(rl.le, rl.base, a.err)
           /\ UNCHANGED <<rl, mem, wlog>>
    ELSE IF ~a.store.some
      THEN /\ rl' = [rl EXCEPT !.i = @ + 1]
           /\ UNCHANGED <<pc, res, ready, mem, wlog>>
    ELSE /\ wlog' = Append(wlog, [off |-> Val(rela.r_offset), addend |-> rela.r_addend])
         /\ \/ /\ mem' = Overwrite(mem, Val(rela.r_offset), a.store.v)
               /\ rl' = [rl EXCEPT !.i = @ + 1]
               /\ UNCHANGED <<pc, res, ready>>
            \/ /\ Val(rela.r_offset) + 8 > Len(mem)
               /\ pc' = "fault"
               /\ UNCHANGED <<rl, mem, res, ready>>

\* a turn that takes the entry from the RELA table of the file, at 112 of raw
RelaTurnFromFile(rela) ==
    RelaApplied(ElfRela(raw, 112 + rl.i * SizeOfElfRela),
                apply_rela(ElfRela(raw, 112 + rl.i * SizeOfElfRela), Len(mem), rl.base))

RelaTurn(rela) == RelaApplied(rela, apply_rela(rela, Len(mem), rl.base))

\* one turn of `for rela in relas`, or the step to protect_segments after the
\* last turn.  The table is a shared slice of mem that the stores of earlier
\* turns may have overwritten through mem_base: the entry read is the one in mem
\* now or the one that was there when the slice was made.
RelaStep ==
    /\ pc = "rela"
    /\ IF rl.i < rl.relas.n
         THEN \E src \in {mem, memL} :
                RelaTurn(ElfRela(src, ElemOff(rl.relas.off, rl.i, SizeOfElfRela)))
         ELSE /\ IF rl.prot = "None"
                   THEN Return(rl.le, rl.base, "Ok")
                   ELSE /\ pc' = "protect"
                        /\ UNCHANGED <<res, ready>>
              /\ rl' = [rl EXCEPT !.i = 0]
              /\ UNCHANGED <<mem, wlog>>
    /\ UNCHANGED <<raw, rawAddr, elf, loaded, memAddr, memL, calls, rawReads, panicked,
                   acc>>

\* protect_segments going on to the next request after a failed one
ProtectStepGoesOn(ok) ==
    /\ pc = "protect"
    /\ calls' = Append(calls, [ req |-> protect_call(rl.le, mem, memAddr, rl.base, rl.i),
                               ok  |-> ok ])
    /\ IF rl.i = Len(rl.le.protect)
         THEN /\ Return(rl.le, rl.base, "Ok")
              /\ UNCHANGED rl
         ELSE /\ rl' = [rl EXCEPT !.i = @ + 1]
              /\ UNCHANGED <<pc, res, ready>>
    /\ UNCHANGED <<raw, rawAddr, elf, loaded, mem, memAddr, memL, wlog, rawReads,
                   panicked, acc>>

\* one invocation of the callback by protect_segments; ok is what it returns
ProtectStep(ok) ==
    /\ pc = "protect"
    /\ calls' = Append(calls, [ req |-> protect_call(rl.le, mem, memAddr, rl.base, rl.i),
                               ok  |-> ok ])
    /\ IF ~ok
         THEN /\ Return(rl.le, rl.base, "MemProtectFailed")
              /\ UNCHANGED rl
       ELSE IF rl.i = Len(rl.le.protect)
         THEN /\ Return(rl.le, rl.base, "Ok")
              /\ UNCHANGED rl
       ELSE /\ rl' = [rl EXCEPT !.i = @ + 1]
            /\ UNCHANGED <<pc, res, ready>>
    /\ UNCHANGED <<raw, rawAddr, elf, loaded, mem, memAddr, memL, wlog, rawReads,
                   panicked, acc>>

\* ReadyElf::p_entry
PEntry ==
    /\ pc = "idle"
    /\ ready # << >>
    /\ LET oob == Lt(U64(Len(mem)), ready[1].entry)
       IN  /\ acc' = [ op |-> "p_entry", err |-> IF oob THEN "Panic" ELSE "Ok",
                       val |-> <<wrapping_add(memAddr, ready[1].entry)>>, reads |-> {} ]
           /\ panicked' = (panicked \/ oob)
           /\ pc' = IF oob THEN "panic" ELSE "accessed"
    /\ UNCHANGED <<raw, rawAddr, elf, loaded, ready, res, mem, memAddr, memL, rl, calls,
                   wlog, rawReads>>

RECURSIVE iterate(_, _, _)
\* what the ProgramHeaders iterator yields from element i on
iterate(buf, hdrs, i) ==
    IF i = hdrs.len THEN << >>
    ELSE LET p == from_elf(ElfProgramHeader(buf, ElemOff(hdrs.off, i, SizeOfElfProgramHeader)),
                           buf)
         IN  (IF p.some THEN <<p.v>> ELSE << >>) \o iterate(buf, hdrs, i + 1)

\* what the caller holds once the iterator over hdrs has yielded phs
Iterated(hdrs, phs, bad) ==
    /\ acc' = [ op |-> "program_headers", err |-> IF bad THEN "Panic" ELSE "Ok",
                val |-> phs,
                reads |->
                  { [lo |-> wrapping_add(hdrs.off, U64(i * SizeOfElfProgramHeader)),
                     n  |-> SizeOfElfProgramHeader] : i \in 0..(hdrs.len - 1) }
                  \cup { [lo |-> phs[k].copy_from.off,
                          n  |-> Clip(phs[k].copy_from.len, Far)] :
                           k \in 1..Len(phs) } ]
    /\ panicked' = (panicked \/ bad)
    /\ pc' = IF bad THEN "panic" ELSE "accessed"

\* a slice of raw made by from_elf was out of range
iterate_panics(phs) == \E k \in 1..Len(phs) : phs[k].panic

IteratedAll(hdrs, phs) == Iterated(hdrs, phs, iterate_panics(phs))

\* Elf::program_headers(), iterated to its end
ProgramHeadersIter ==
    /\ pc = "idle"
    /\ elf # << >>
    /\ IteratedAll(elf[1].program_headers.inner,
                   iterate(raw, elf[1].program_headers.inner, 0))
    /\ UNCHANGED <<raw, rawAddr, elf, loaded, ready, res, mem, memAddr, memL, rl, calls,
                   wlog, rawReads>>

\* the caller drops what the accessor returned
Drop ==
    /\ pc = "accessed"
    /\ pc' = "idle"
    /\ acc' = NoAccess
    /\ UNCHANGED <<raw, rawAddr, elf, loaded, ready, res, mem, memAddr, memL, rl, calls,
                   wlog, rawReads, panicked>>

\* the caller drops the Elf and overwrites raw, as the crate's tests do
RawOverwritten ==
    /\ pc = "idle"
    /\ elf # << >>
    /\ loaded # << >> \/ ready # << >>
    /\ elf' = << >>
    /\ raw' = Fill(204, Len(raw))
    /\ UNCHANGED <<rawAddr, pc, loaded, ready, res, mem, memAddr, memL, rl, calls, wlog,
                   rawReads, panicked, acc>>

\* the caller drops the Elf and frees raw
RawDropped ==
    /\ pc = "idle"
    /\ elf # << >>
    /\ loaded # << >> \/ ready # << >>
    /\ elf' = << >>
    /\ raw' = << >>
    /\ UNCHANGED <<rawAddr, pc, loaded, ready, res, mem, memAddr, memL, rl, calls, wlog,
                   rawReads, panicked, acc>>

InitParse == InitWith(ParseImages)

NextParse == Parse

SpecParse == InitParse /\ [][NextParse]_vars

\* try_parse and the program-header iterator on the images for the checks of
\* the program headers
InitSegments == InitWith(SegImages)

NextSegments ==
    \/ Parse
    \/ ProgramHeadersIter
    \/ Drop

SpecSegments == InitSegments /\ [][NextSegments]_vars

Init == InitWith(PipeImages)

Next ==
    \/ Parse
    \/ ProgramHeadersIter
    \/ \E n \in MemLens(elf), addr \in MemAddrs : Load(n, addr)
    \/ \E base \in Bases, prot \in {"None", "Some"} : RelocStart(base, prot)
    \/ RelStep
    \/ RelaStep
    \/ \E ok \in BOOLEAN : ProtectStep(ok)
    \/ PEntry
    \/ Drop

Spec == Init /\ [][Next]_vars

\* the pipeline on the images for try_reloc
InitReloc == InitWith(RelocImages)

SpecReloc == InitReloc /\ [][Next]_vars

\* the pipeline with callers that give up raw once try_load has succeeded
NextRawGone ==
    \/ Next
    \/ RawOverwritten
    \/ RawDropped

SpecRawGone == Init /\ [][NextRawGone]_vars

---------------------------------------------------------------------------
(* Properties of try_parse.                                                *)

\* the 16-bit field of raw at byte offset off
Half(off) == Val(Rd(raw, off, 2))

\* the e_phoff field of raw
Phoff == Rd(raw, 32, 8)

\* header check k, in the order of HeaderChecks, refuses raw
HeaderCheckFails(k) ==
    CASE k = 1  -> Len(raw) < 64
      [] k = 2  -> ~IsZero(Mod(rawAddr, U64(8)))
      [] k = 3  -> Rd(raw, 0, 4) # <<127, 69, 76, 70>>
      [] k = 4  -> Half(52) # 64
      [] k = 5  -> Rd(raw, 4, 1) # <<2>>
      [] k = 6  -> Rd(raw, 5, 1) # <<1>>
      [] k = 7  -> Half(16) # 3
      [] k = 8  -> Half(18) # 62
      [] k = 9  -> Half(54) # 56
      [] k = 10 -> ph_table_overflows(Phoff, Half(56), U64(Len(raw)))
      [] k = 11 -> ~IsZero(Mod(wrapping_add(rawAddr, Phoff), U64(8)))

\* the error of header check k
HeaderError ==
    << "BadBufferSize", "BadBufferAlignment", "BufferNotElf", "BadHeaderSize", "NotElf64",
       "BadEndian", "NotPic", "BadIsa", "BadProgramHeaderSize", "ProgramHeaderOverflow",
       "BadBufferAlignment" >>

\* header check k is the first one that refuses raw
FirstFailing(k) == HeaderCheckFails(k) /\ \A j \in 1..(k - 1) : ~HeaderCheckFails(j)

\* C9: try_parse returns the error of the first header check, in the order
\* size, alignment, magic, e_ehsize, class, endianness, e_type, machine,
\* e_phentsize, table bounds, table alignment, that refuses the buffer, and
\* then produces no Elf; when no header check refuses it, the error is none of
\* theirs.
C9_FirstFailingCheckWins ==
    res.op = "parse" =>
      /\ \A k \in HeaderChecks : FirstFailing(k) => res.err = HeaderError[k] /\ elf = << >>
      /\ (\A k \in HeaderChecks : ~HeaderCheckFails(k))
           => \A k \in HeaderChecks : res.err # HeaderError[k]

\* a buffer that fails the class, machine and table-alignment checks has been
\* parsed and refused for its class
C9_Witness ==
    /\ res.op = "parse"
    /\ FirstFailing(5) /\ HeaderCheckFails(8) /\ HeaderCheckFails(11)
    /\ res.err = "NotElf64"

\* e_phoff + e_phnum * 56 <= len(raw), computed without wrap-around
TableFits == Fits(Phoff) /\ Val(Phoff) + Half(56) * 56 <= Len(raw)

\* C10: when the checks before it pass, the table bound check passes exactly
\* when e_phoff + e_phnum * 56 <= len(raw) and gives ProgramHeaderOverflow
\* otherwise; a 64-byte buffer with a valid header, no program headers,
\* e_phoff = 64 and no entry point is accepted.
C10_TableBoundAsStated ==
    res.op = "parse" /\ (\A j \in 1..9 : ~HeaderCheckFails(j)) =>
      /\ (res.err # "ProgramHeaderOverflow") <=> TableFits
      /\ (Len(raw) = 64 /\ Half(56) = 0 /\ Phoff = U64(64) /\ IsZero(Rd(raw, 24, 8)))
           => res.err = "Ok"

---------------------------------------------------------------------------
(* Properties of try_load.                                                 *)

\* the program headers of raw in table order, read at e_phoff
RawHeaders ==
    [i \in 1..Half(56) |-> ElfProgramHeader(raw, Clip(Phoff, Far) + (i - 1) * 56)]

\* the header h is one try_load records in the protect list
IsRecorded(h) == h.p_type \in {PT_LOAD, PT_DYNAMIC, PT_GNU_RELRO}

\* header i of hs is a DYNAMIC header that follows another one
SecondDynamic(hs, i) ==
    hs[i].p_type = PT_DYNAMIC /\ \E j \in 1..(i - 1) : hs[j].p_type = PT_DYNAMIC

\* header i of hs is a recorded header that follows eight recorded ones
NinthRecorded(hs, i) ==
    IsRecorded(hs[i]) /\ Cardinality({j \in 1..(i - 1) : IsRecorded(hs[j])}) >= 8

\* the result of try_load on a buffer that is long enough and aligned, from the
\* headers hs alone
HeadersResult(hs) ==
    LET stops == {i \in 1..Len(hs) : SecondDynamic(hs, i) \/ NinthRecorded(hs, i)}
    IN  IF stops # {}
          THEN IF SecondDynamic(hs, CHOOSE i \in stops : \A j \in stops : i <= j)
                 THEN "MultipleDynamicSegments"
                 ELSE "TooManySegments"
        ELSE IF \E i \in 1..Len(hs) : hs[i].p_type = PT_DYNAMIC THEN "Ok"
        ELSE "NoDynamicSegments"

\* the buffer of the last try_load was at least mem_len bytes long
BufferLongEnough == ~Lt(U64(Len(mem)), elf[1].mem_len)

\* the buffer of the last try_load was at an address divisible by mem_align
BufferAligned == IsZero(Mod(memAddr, elf[1].mem_align))

\* C1 as stated: try_load succeeds on every buffer that is long enough and
\* aligned, and returns BadBufferSize or BadBufferAlignment on every other one
C1_LoadFailsOnlyForBuffer ==
    res.op = "load" =>
      IF BufferLongEnough /\ BufferAligned
        THEN res.err = "Ok"
        ELSE res.err \in {"BadBufferSize", "BadBufferAlignment"}

\* C1: try_load returns BadBufferSize on a buffer shorter than mem_len, else
\* BadBufferAlignment on a buffer whose address mem_align does not divide, else
\* MultipleDynamicSegments at a second DYNAMIC header or TooManySegments at a
\* ninth LOAD, DYNAMIC or RELRO header, whichever header comes first, else
\* NoDynamicSegments when no header is DYNAMIC, and succeeds otherwise
C1_LoadErrors ==
    res.op = "load" =>
      res.err = IF ~BufferLongEnough THEN "BadBufferSize"
                ELSE IF ~BufferAligned THEN "BadBufferAlignment"
                ELSE HeadersResult(RawHeaders)

\* try_load has refused a parsed image on a buffer that is long enough and
\* aligned
C1_Witness ==
    /\ res.op = "load"
    /\ BufferLongEnough /\ BufferAligned
    /\ res.err = "TooManySegments"

\* header i of hs copies file bytes to byte b (from 0) of the buffer
Copies(hs, i, b) ==
    /\ hs[i].p_type \in {PT_LOAD, PT_DYNAMIC}
    /\ Clip(hs[i].p_vaddr, Far) <= b
    /\ b < Clip(hs[i].p_vaddr, Far) + Clip(hs[i].p_filesz, Far)

\* byte b of the buffer is in the zero-initialised tail of header i of hs
InTail(hs, i, b) ==
    /\ hs[i].p_type \in {PT_LOAD, PT_DYNAMIC}
    /\ Clip(hs[i].p_vaddr, Far) + Clip(hs[i].p_filesz, Far) <= b
    /\ b < Clip(hs[i].p_vaddr, Far) + Clip(hs[i].p_memsz, Far)

\* the byte of raw that header i of hs has for byte b of the buffer
FileByte(hs, i, b) == raw[Clip(hs[i].p_offset, Far) + (b - Clip(hs[i].p_vaddr, Far)) + 1]

\* the buffer m holds, for every header, the file bytes of the header and zero
\* in its tail, and zero outside every file range
ContentsAsStated(hs, m) ==
    \A b \in 0..(Len(m) - 1) :
      /\ \A i \in 1..Len(hs) : Copies(hs, i, b) => m[b + 1] = FileByte(hs, i, b)
      /\ \A i \in 1..Len(hs) : InTail(hs, i, b) => m[b + 1] = 0
      /\ (\A i \in 1..Len(hs) : ~Copies(hs, i, b)) => m[b + 1] = 0

\* the buffer m holds, at every byte, the file byte of the last header in table
\* order that copies to it, and zero where no header copies
LastCopyWins(hs, m) ==
    \A b \in 0..(Len(m) - 1) :
      LET cs == {i \in 1..Len(hs) : Copies(hs, i, b)}
      IN  m[b + 1] = IF cs = {} THEN 0
                     ELSE FileByte(hs, CHOOSE i \in cs : \A j \in cs : j <= i, b)

\* C4 as stated: after a successful try_load every byte of the buffer in the
\* file range of a LOAD or DYNAMIC header equals the byte of raw of that header,
\* every byte in the tail of such a header is zero, and every other byte is zero
C4_ContentsAsStated ==
    res.op = "load" /\ res.err = "Ok" => ContentsAsStated(RawHeaders, memL)

\* C4: after a successful try_load every byte of the buffer, whatever it held
\* before, is zero when it is in the file range of no LOAD or DYNAMIC header,
\* and else equals the byte of raw of the last such header in table order
C4_LastCopyWins ==
    res.op = "load" /\ res.err = "Ok" => LastCopyWins(RawHeaders, memL)

\* a successful try_load where two headers had different file bytes for one
\* byte of the buffer
C4_Witness ==
    /\ res.op = "load" /\ res.err = "Ok"
    /\ \E b \in 0..(Len(memL) - 1) : \E i, j \in 1..Half(56) :
         /\ i < j
         /\ Copies(RawHeaders, i, b) /\ Copies(RawHeaders, j, b)
         /\ FileByte(RawHeaders, i, b) # FileByte(RawHeaders, j, b)

---------------------------------------------------------------------------
(* Properties of try_reloc.                                                *)

\* C2 as stated: every 8-byte store of the relocator ends inside the buffer
C2_StoresInsideBuffer ==
    \A k \in 1..Len(wlog) : wlog[k].off + 8 <= Len(mem)

\* try_reloc has returned Ok
RelocOk == res.op = "reloc" /\ res.err = "Ok"

\* entry k (from 0) of the RELA table of the last try_reloc, as mem holds it
TableEntry(k) == ElfRela(mem, ElemOff(rl.relas.off, k, SizeOfElfRela))

IsRelative(rela) == r_type(rela.r_info) = R_X86_64_RELATIVE

\* C3 as stated: after a successful try_reloc the 8 bytes at the r_offset of
\* every RELATIVE entry of the RELA table are v_base + r_addend
C3_EveryTargetHoldsItsValue ==
    RelocOk =>
      \A k \in 0..(rl.relas.n - 1) :
        IsRelative(TableEntry(k)) =>
          Rd(mem, Clip(TableEntry(k).r_offset, Far), 8)
            = wrapping_add(rl.base, TableEntry(k).r_addend)

\* store k of the relocator covers byte b (from 0)
Covers(k, b) == wlog[k].off <= b /\ b < wlog[k].off + 8

\* the byte the last of the stores ks leaves at byte b
StoredByte(ks, b) ==
    LET k == CHOOSE k \in ks : \A j \in ks : j <= k
    IN  wrapping_add(rl.base, wlog[k].addend)[b - wlog[k].off + 1]

\* no store of the relocator covers a byte of the RELA table
TableUntouched ==
    \A k \in 1..Len(wlog) : \A b \in 0..(Len(mem) - 1) :
      Covers(k, b) => \/ b < Clip(rl.relas.off, Far)
                      \/ b >= Clip(rl.relas.off, Far) + rl.relas.n * SizeOfElfRela

\* the targets and addends of the RELATIVE entries of the RELA table, in order
RelativeEntries ==
    LET es == SelectSeq([k \in 1..rl.relas.n |-> TableEntry(k - 1)], IsRelative)
    IN  [k \in 1..Len(es) |-> [off |-> Clip(es[k].r_offset, Far), addend |-> es[k].r_addend]]

\* C3: after a successful try_reloc every byte of the buffer that an applied
\* RELATIVE entry covers holds the byte of v_base + r_addend of the last applied
\* entry that covers it, every other byte is as try_load left it, and the
\* applied entries are the RELATIVE entries of the table in order when no store
\* covers a byte of the table
C3_LastStoreWins ==
    RelocOk =>
      /\ \A b \in 0..(Len(mem) - 1) :
           LET ks == {k \in 1..Len(wlog) : Covers(k, b)}
           IN  mem[b + 1] = IF ks = {} THEN memL[b + 1] ELSE StoredByte(ks, b)
      /\ TableUntouched => wlog = RelativeEntries

\* a successful try_reloc with two RELATIVE entries whose targets overlap
C3_Witness ==
    /\ RelocOk
    /\ Len(wlog) = 2
    /\ wlog[1].off < wlog[2].off /\ wlog[2].off < wlog[1].off + 8
    /\ TableUntouched

\* the recorded headers of raw in table order
RecordedHeaders == SelectSeq(RawHeaders, IsRecorded)

\* the requests try_reloc makes of a callback: read-only over the whole
\* buffer, then one per recorded header
ExpectedRequests(hs) ==
    [ k \in 1..(1 + Len(hs)) |->
        [ prot    |-> IF k = 1 THEN "RO" ELSE from_flags(hs[k - 1].p_flags),
          p_base  |-> memAddr,
          v_base  |-> rl.base,
          mem_len |-> Len(mem),
          range   |-> IF k = 1 THEN [start |-> U64(0), end |-> U64(Len(mem))]
                      ELSE [ start |-> AsU32(hs[k - 1].p_vaddr),
                             end   |-> AsU32(wrapping_add(hs[k - 1].p_vaddr,
                                                          hs[k - 1].p_memsz)) ] ] ]

\* C5: a try_reloc that was given a callback and returned Ok has invoked it
\* first with read-only protection over [0, mem.len()) and then once per LOAD,
\* DYNAMIC and RELRO header in table order, with the range and protection of
\* the header, every time with the same loader base, v_base and mem.len(); a
\* try_reloc without a callback invokes nothing
C5_RequestsInOrder ==
    RelocOk =>
      IF rl.prot = "Some"
        THEN [k \in 1..Len(calls) |-> calls[k].req] = ExpectedRequests(RecordedHeaders)
        ELSE calls = << >>

\* a successful try_reloc that made nine requests, six of them for RELRO headers
C5_Witness ==
    /\ RelocOk
    /\ rl.prot = "Some"
    /\ Len(calls) = 9
    /\ Len(RecordedHeaders) = 8
    /\ calls[4].req.prot = "RO" /\ calls[2].req.prot = "RW"

\* C6: a failed invocation of the callback is the last one try_reloc makes, and
\* try_reloc then returns MemProtectFailed with the buffer and no ReadyElf
C6_FailureEndsReloc ==
    \A k \in 1..Len(calls) :
      ~calls[k].ok =>
        /\ k = Len(calls)
        /\ pc # "protect"
        /\ res = [op |-> "reloc", err |-> "MemProtectFailed"]
        /\ ready = << >>
        /\ Len(mem) = calls[k].req.mem_len

\* a callback that failed on its first invocation, invoked once
C6_Witness ==
    /\ Len(calls) = 1
    /\ ~calls[1].ok
    /\ res = [op |-> "reloc", err |-> "MemProtectFailed"]

---------------------------------------------------------------------------
(* Properties of the pipeline.                                             *)

\* a step that is a call of try_load: the caller is between calls, and the
\* step leaves a result of try_load and no try_reloc under way
LoadCall == pc = "idle" /\ acc' = acc /\ rl' = NoReloc /\ res'.op = "load"

\* a step that is a call of try_reloc: the caller is between calls, and the
\* step sets up the locals of try_reloc
RelocCall == pc = "idle" /\ acc' = acc /\ rl' # NoReloc

\* C7 as stated: every step of the pipeline is one-shot.  try_load is called on
\* an Elf that has not been loaded, try_reloc takes the LoadedElf, and nothing
\* is called after an error.
C7_OneShotEverywhere ==
    [][ /\ LoadCall => res = [op |-> "parse", err |-> "Ok"]
        /\ RelocCall => loaded' = << >> ]_vars

\* C7: try_load leaves the Elf with the caller, who may call it again,
\* whatever the earlier calls returned; try_reloc is called on the LoadedElf of
\* a successful try_load and takes it, so that no LoadedElf is left after it,
\* whether it fails or not
C7_OnlyRelocConsumes ==
    [][ /\ LoadCall => elf # << >> /\ elf' = elf
        /\ RelocCall => res = [op |-> "load", err |-> "Ok"] /\ loaded' = << >>
        /\ res'.op = "reloc" => loaded' = << >> ]_vars

\* an Elf that was loaded has been passed to try_load again, which refused the
\* buffer
C7_Witness ==
    /\ res = [op |-> "load", err |-> "BadBufferAlignment"]
    /\ elf # << >>
    /\ \E i \in 1..Len(mem) : mem[i] # 170

\* the read r of raw is inside raw
InsideRaw(r) == Fits(r.lo) /\ Val(r.lo) + r.n <= Len(raw)

\* C8 as stated: no call panics or faults, and every read of raw is inside raw
C8_NoPanicNoStrayAccess ==
    /\ ~panicked
    /\ pc \notin {"panic", "fault"}
    /\ \A r \in rawReads \cup acc.reads : InsideRaw(r)

---------------------------------------------------------------------------
(* Properties of the checks of the program headers.                        *)

\* the e_entry field of raw
EntryOf == Rd(raw, 24, 8)

\* p_offset + p_filesz, p_vaddr + p_memsz of the header h, None when they wrap
FileEnd(h) == checked_add(h.p_offset, h.p_filesz)
MemEnd(h) == checked_add(h.p_vaddr, h.p_memsz)

\* the error with which check_ph_ranges refuses the header h, "Ok" when it
\* does not
Refusal(h) ==
    IF ~FileEnd(h).some \/ ~Lt(FileEnd(h).v, U64(Len(raw))) THEN "BadPhRange"
    ELSE IF ~MemEnd(h).some \/ Lt(U32_MAX, MemEnd(h).v) \/ Lt(U32_MAX, h.p_memsz)
      THEN "BadVmemRange"
    ELSE IF Lt(h.p_memsz, h.p_filesz) THEN "PhSmallerThanVmem"
    ELSE IF Lt(U32_MAX, h.p_align) THEN "ExcessiveAlignment"
    ELSE "Ok"

\* the file header of raw passes every header check and no program header of
\* raw is refused
RangesPass ==
    /\ \A k \in HeaderChecks : ~HeaderCheckFails(k)
    /\ \A i \in 1..Half(56) : Refusal(RawHeaders[i]) = "Ok"

\* the header h is a LOAD header with the X flag whose memory range holds e
HoldsEntry(h, e) ==
    /\ h.p_type = PT_LOAD
    /\ (h.p_flags[1] \div PF_X) % 2 = 1
    /\ Le(h.p_vaddr, e)
    /\ MemEnd(h).some /\ Lt(e, MemEnd(h).v)

\* C11: when every other check passes, try_parse succeeds if e_entry is 0 or
\* some LOAD header with the X flag, at any position, has p_vaddr <= e_entry <
\* p_vaddr + p_memsz, and returns BadEntry otherwise; e_entry = p_vaddr +
\* p_memsz of the only executable segment is refused
C11_EntryInExecutableSegment ==
    res.op = "parse" /\ RangesPass =>
      res.err = IF IsZero(EntryOf) \/ \E i \in 1..Half(56) : HoldsEntry(RawHeaders[i], EntryOf)
                  THEN "Ok" ELSE "BadEntry"

\* try_parse has accepted an entry inside the second header, an executable
\* segment, and not inside the first
C11_Witness ==
    /\ res = [op |-> "parse", err |-> "Ok"]
    /\ ~IsZero(EntryOf)
    /\ Half(56) = 2
    /\ ~HoldsEntry(RawHeaders[1], EntryOf)
    /\ HoldsEntry(RawHeaders[2], EntryOf)

\* the 64-bit value x is a power of two
IsPowerOfTwo(x) ==
    \E i \in 1..Len(x) :
      /\ x[i] \in {1, 2, 4, 8, 16, 32, 64, 128}
      /\ \A j \in 1..Len(x) : j # i => x[j] = 0

\* C12 as stated: mem_len and mem_align of every Elf are powers of two between
\* 1 and 2^32
C12_PowersOfTwo ==
    elf # << >> =>
      /\ IsPowerOfTwo(elf[1].mem_len) /\ Le(elf[1].mem_len, Over32(0))
      /\ IsPowerOfTwo(elf[1].mem_align) /\ Le(elf[1].mem_align, Over32(0))

\* C12: mem_len of every Elf is between 0 and 2^32 - 1 and mem_align between 1
\* and 2^32 - 1; neither has to be a power of two
C12_WithinU32 ==
    elf # << >> =>
      /\ Le(elf[1].mem_len, U32_MAX)
      /\ Le(U64(1), elf[1].mem_align) /\ Le(elf[1].mem_align, U32_MAX)

\* an Elf with mem_len = 112 and mem_align = 3
C12_Witness ==
    /\ elf # << >>
    /\ elf[1].mem_len = U64(112)
    /\ elf[1].mem_align = U64(3)

\* the greatest of the 64-bit values in S
Greatest(S) == CHOOSE x \in S : \A y \in S : Le(y, x)

\* the greatest p_vaddr + p_memsz of the headers of raw with an index in I, 0
\* when there is none
GreatestEnd(I) ==
    Greatest({U64(0)} \cup {wrapping_add(RawHeaders[i].p_vaddr, RawHeaders[i].p_memsz) : i \in I})

\* the greatest p_align of the headers of raw with an index in I, and at least 1
GreatestAlign(I) == Greatest({U64(1)} \cup {RawHeaders[i].p_align : i \in I})

\* the indices of the LOAD and DYNAMIC headers of raw
LoadedHeaders == {i \in 1..Half(56) : RawHeaders[i].p_type \in {PT_LOAD, PT_DYNAMIC}}

---------------------------------------------------------------------------
(* Properties of the LoadedElf.                                            *)

\* header i of hs is the first one at which try_load stops
StopsFirst(hs, i) ==
    /\ SecondDynamic(hs, i) \/ NinthRecorded(hs, i)
    /\ \A j \in 1..(i - 1) : ~(SecondDynamic(hs, j) \/ NinthRecorded(hs, j))

\* the protect list pl has one entry per header of hs, in order, with the
\* range [p_vaddr, p_vaddr + p_memsz) of the header, inside a buffer of n bytes
ListsHeaders(pl, hs, n) ==
    /\ Len(pl) = Len(hs)
    /\ \A k \in 1..Len(pl) :
         /\ pl[k].range.start = AsU32(hs[k].p_vaddr)
         /\ pl[k].range.len = AsU32(hs[k].p_memsz)
         /\ Clip(hs[k].p_vaddr, Far) + Clip(hs[k].p_memsz, Far) <= n

\* C14: the protect list of every LoadedElf has one entry for each LOAD,
\* DYNAMIC and GNU_RELRO header, in table order, with the range [p_vaddr,
\* p_vaddr + p_memsz), at most 8 entries, each range inside [0, mem.len()];
\* try_load on a good buffer fails with TooManySegments exactly when it comes
\* to record a ninth entry
C14_ProtectList ==
    /\ loaded # << >> =>
         /\ Len(loaded[1].protect) <= 8
         /\ ListsHeaders(loaded[1].protect, RecordedHeaders, Len(mem))
    /\ res.op = "load" /\ BufferLongEnough /\ BufferAligned =>
         (res.err = "TooManySegments"
            <=> \E i \in 1..Half(56) :
                  /\ StopsFirst(RawHeaders, i)
                  /\ IsRecorded(RawHeaders[i])
                  /\ ~SecondDynamic(RawHeaders, i))

\* a LoadedElf with eight entries, six of them for GNU_RELRO headers
C14_Witness ==
    /\ loaded # << >>
    /\ Len(loaded[1].protect) = 8
    /\ Cardinality({i \in 1..Half(56) : RawHeaders[i].p_type = PT_GNU_RELRO}) = 6

\* the indices of the DYNAMIC headers of hs
Dynamics(hs) == {i \in 1..Len(hs) : hs[i].p_type = PT_DYNAMIC}

\* dyns starts at p_vaddr of the header h and counts floor(p_memsz / 16) entries
DynRangeOf(dyns, h) ==
    /\ dyns.start = AsU32(h.p_vaddr)
    /\ dyns.len = U64(Clip(h.p_memsz, Far) \div 16)

\* C15: an image that try_load accepts has exactly one DYNAMIC header, and the
\* dyns of the LoadedElf start at its p_vaddr and count floor(p_memsz / 16)
\* entries; try_load on a good buffer returns MultipleDynamicSegments when it
\* comes to a second DYNAMIC header and NoDynamicSegments when it has gone
\* through all headers and none is DYNAMIC
C15_OneDynamic ==
    /\ loaded # << >> =>
         /\ Cardinality(Dynamics(RawHeaders)) = 1
         /\ \A i \in Dynamics(RawHeaders) : DynRangeOf(loaded[1].dyns, RawHeaders[i])
    /\ res.op = "load" /\ BufferLongEnough /\ BufferAligned =>
         /\ res.err = "MultipleDynamicSegments"
              <=> \E i \in 1..Half(56) :
                    StopsFirst(RawHeaders, i) /\ SecondDynamic(RawHeaders, i)
         /\ res.err = "NoDynamicSegments"
              <=> /\ \A i \in 1..Half(56) : ~StopsFirst(RawHeaders, i)
                  /\ Dynamics(RawHeaders) = {}

\* a LoadedElf of three dynamic entries from a DYNAMIC segment of 56 bytes
C15_Witness ==
    /\ loaded # << >>
    /\ loaded[1].dyns.len = U64(3)
    /\ \E i \in Dynamics(RawHeaders) : RawHeaders[i].p_memsz = U64(56)

---------------------------------------------------------------------------
(* Properties of the program-header iterator.                              *)

\* the iterator yields the header h
IsYielded(h) == h.p_type \notin {PT_NULL, PT_GNU_STACK}

\* the headers of raw the iterator yields, in table order
YieldedHeaders == SelectSeq(RawHeaders, IsYielded)

\* the bit b of p_flags of the header h is set
HasFlag(h, b) == (h.p_flags[1] \div b) % 2 = 1

\* the protections ps of the headers hs are as their R, W and X bits say
ProtectionsByBits(ps, hs) ==
    /\ Len(ps) = Len(hs)
    /\ \A k \in 1..Len(hs) :
         /\ ps[k].protection \in {"RO", "RW", "RX"}
         /\ HasFlag(hs[k], PF_W) /\ HasFlag(hs[k], PF_X) => ps[k].protection = "RX"
         /\ HasFlag(hs[k], PF_X) /\ ~HasFlag(hs[k], PF_W) => ps[k].protection = "RX"
         /\ HasFlag(hs[k], PF_W) /\ ~HasFlag(hs[k], PF_X) => ps[k].protection = "RW"
         /\ HasFlag(hs[k], PF_R) /\ ~HasFlag(hs[k], PF_W) /\ ~HasFlag(hs[k], PF_X)
              => ps[k].protection = "RO"
         /\ \A l \in 1..Len(hs) :
              hs[k].p_flags[1] % 8 = hs[l].p_flags[1] % 8
                => ps[k].protection = ps[l].protection

\* C16: the protection of every program header the iterator yields depends on
\* the R, W and X bits of p_flags only: read-only for R alone, read-write for
\* W and R|W, read-execute for X and R|X and for every combination with W and
\* X; none allows writing and executing
C16_ProtectionFromFlagBits ==
    acc.op = "program_headers" /\ acc.err = "Ok" =>
      ProtectionsByBits(acc.val, YieldedHeaders)

\* the iterator has yielded read-execute for a header with the R, W and X bits
\* and for one with other bits set as well
C16_Witness ==
    /\ acc.op = "program_headers" /\ acc.err = "Ok"
    /\ Len(acc.val) = 2
    /\ YieldedHeaders[1].p_flags = LE(7, 4)
    /\ YieldedHeaders[2].p_flags # LE(7, 4)
    /\ acc.val[1].protection = "RX" /\ acc.val[2].protection = "RX"

---------------------------------------------------------------------------
(* Properties of try_reloc as a function of the loaded buffer.             *)

\* every store of the relocator ended inside the buffer
NoStrayStore == \A k \in 1..Len(wlog) : wlog[k].off + 8 <= Len(mem)

\* what try_reloc returns when relocate_segments gave p: the error of
\* base_to_offset, else that of p, else that of the callback
RelocResult(b, p) ==
    IF b.err # "Ok" THEN b.err
    ELSE IF p.err # "Ok" THEN p.err
    ELSE IF \E k \in 1..Len(calls) : ~calls[k].ok THEN "MemProtectFailed"
    ELSE "Ok"

\* the result of try_reloc is r and the buffer is m, as b and p give them
RelocGave(r, m, b, p) ==
    /\ r = RelocResult(b, p)
    /\ m = IF b.err # "Ok" THEN memL ELSE p.mem

\* C17: try_reloc does not read raw or the Elf.  Whatever became of raw after
\* try_load (left as it was, overwritten, freed), the result of try_reloc and
\* the bytes it leaves in mem are those that relocate_segments gives on the
\* buffer as try_load left it, with the base and the callback's answers
C17_RelocFromLoadedBufferOnly ==
    res.op = "reloc" /\ NoStrayStore /\ TableUntouched =>
      RelocGave(res.err, mem, base_to_offset(rl.le.mem_align, rl.base),
                relocate_segments(rl.le, memL, memAddr, rl.base))

\* try_reloc has stored two values and succeeded after raw was overwritten
C17_Witness ==
    /\ RelocOk
    /\ Len(raw) > 0 /\ \A i \in 1..Len(raw) : raw[i] = 204
    /\ Len(wlog) = 2
    /\ NoStrayStore /\ TableUntouched

\* the image as loaded has no REL entries and RELATIVE entries only in its
\* RELA table
AllRelative ==
    /\ rl.rels.n = 0
    /\ \A k \in 0..(rl.relas.n - 1) :
         IsRelative(ElfRela(memL, ElemOff(rl.relas.off, k, SizeOfElfRela)))

\* no store of the relocator covers a byte of the dynamic table
DynUntouched ==
    \A k \in 1..Len(wlog) : \A b \in 0..(Len(mem) - 1) :
      Covers(k, b) => \/ b < Clip(rl.le.dyns.start, Far)
                      \/ b >= Clip(rl.le.dyns.start, Far)
                                + Clip(rl.le.dyns.len, Far) * SizeOfElfDyn

\* the pass p succeeded and left the buffer as mem is
PassKeepsMem(p) == p.err = "Ok" /\ ~p.stray /\ p.mem = mem

\* C18 as stated: relocate_segments on the buffer a successful try_reloc left,
\* with the same base, changes no byte when the image has RELATIVE entries only
C18_SecondPassChangesNothing ==
    RelocOk /\ AllRelative =>
      PassKeepsMem(relocate_segments(rl.le, mem, memAddr, rl.base))

\* C18: relocate_segments on the buffer a successful try_reloc left, with the
\* same base, succeeds and changes no byte when the image has RELATIVE entries
\* only, every store ended inside the buffer and none covered a byte of the
\* dynamic table or of the RELA table
C18_SecondPassKeepsUntouchedTables ==
    RelocOk /\ AllRelative /\ NoStrayStore /\ TableUntouched /\ DynUntouched =>
      PassKeepsMem(relocate_segments(rl.le, mem, memAddr, rl.base))

\* a successful try_reloc of two RELATIVE entries with overlapping targets
\* outside the tables
C18_Witness ==
    /\ RelocOk /\ AllRelative /\ NoStrayStore /\ TableUntouched /\ DynUntouched
    /\ Len(wlog) = 2
    /\ wlog[1].off = 96 /\ wlog[2].off = 100
    /\ mem # memL

\* the file range of the header h ends inside raw or at its end
FileFits(h) == FileEnd(h).some /\ Le(FileEnd(h).v, U64(Len(raw)))

\* C19 as stated: for an image of LOAD and DYNAMIC headers try_parse returns
\* BadPhRange when the first header is one with p_offset + p_filesz > len(raw)
\* (or wrapping), and does not return it when p_offset + p_filesz <= len(raw)
\* for every header, as for a segment that ends at the last byte of raw
C19_FileRangeInclusive ==
    /\ res.op = "parse"
    /\ \A k \in HeaderChecks : ~HeaderCheckFails(k)
    /\ LoadedHeaders = 1..Half(56)
    => /\ Half(56) > 0 /\ ~FileFits(RawHeaders[1]) => res.err = "BadPhRange"
       /\ (\A i \in 1..Half(56) : FileFits(RawHeaders[i])) => res.err # "BadPhRange"

\* C20 as stated: when try_parse fails with BadPhRange, BadVmemRange,
\* PhSmallerThanVmem or ExcessiveAlignment, a LOAD or DYNAMIC header is one
\* that check_ph_ranges refuses; headers of other types make no failure
C20_OnlyLoadedHeadersRefused ==
    /\ res.op = "parse"
    /\ res.err \in {"BadPhRange", "BadVmemRange", "PhSmallerThanVmem", "ExcessiveAlignment"}
    => \E i \in LoadedHeaders : Refusal(RawHeaders[i]) # "Ok"

---------------------------------------------------------------------------
(* Properties of the steps of try_reloc.                                   *)

\* the entries of the dynamic array of the last try_reloc, as try_load left them
DynEntries ==
    [ i \in 1..Clip(rl.le.dyns.len, Far) |->
        ElfDyn(memL, Clip(rl.le.dyns.start, Far) + (i - 1) * SizeOfElfDyn) ]

\* entry i of the dynamic array gives a wrong size of the REL or RELA entries
BadEntSize(i) ==
    \/ DynEntries[i].d_tag = U64(DT_RELENT) /\ DynEntries[i].d_val # U64(SizeOfElfRel)
    \/ DynEntries[i].d_tag = U64(DT_RELAENT) /\ DynEntries[i].d_val # U64(SizeOfElfRela)

\* the value of the last entry of the dynamic array with the given tag, 0
\* without such an entry
LastValue(tag) ==
    LET I == {i \in DOMAIN DynEntries : DynEntries[i].d_tag = U64(tag)}
    IN  IF I = {} THEN U64(0)
        ELSE DynEntries[CHOOSE i \in I : \A j \in I : j <= i].d_val

\* the range check of slice_rel refuses a table of len bytes at off
RangeRefused(off, len) ==
    /\ ~IsZero(off)
    /\ checked_add(off, len).some => ~Lt(checked_add(off, len).v, U64(Len(memL)))

\* a table at off is at an address that is no multiple of 8
TableMisaligned(off) ==
    ~IsZero(off) /\ ~IsZero(Mod(wrapping_add(memAddr, off), U64(AlignOfElfStruct)))

\* the steps of try_reloc before its loops over the entries, in the order of the
\* crate's code: 1 the base, 2 the address of the dynamic array, 3 the scan, 4
\* and 5 the REL table, 6 and 7 the RELA table
StepFails(k) ==
    CASE k = 1 -> ~IsZero(Mod(rl.base, rl.le.mem_align))
      [] k = 2 -> ~IsZero(Mod(wrapping_add(memAddr, rl.le.dyns.start), U64(AlignOfElfStruct)))
      [] k = 3 -> \E i \in DOMAIN DynEntries : BadEntSize(i)
      [] k = 4 -> RangeRefused(LastValue(DT_REL), LastValue(DT_RELSZ))
      [] k = 5 -> TableMisaligned(LastValue(DT_REL))
      [] k = 6 -> RangeRefused(LastValue(DT_RELA), LastValue(DT_RELASZ))
      [] k = 7 -> TableMisaligned(LastValue(DT_RELA))

\* the error of step k
StepError(k) ==
    CASE k = 1 -> "BadBaseAddressAlignment"
      [] k = 2 -> "BadDynAlignment"
      [] k = 3 -> LET i == CHOOSE i \in DOMAIN DynEntries :
                             BadEntSize(i) /\ \A j \in 1..(i - 1) : ~BadEntSize(j)
                  IN  IF DynEntries[i].d_tag = U64(DT_RELENT) THEN "BadRelSize" ELSE "BadRelaSize"
      [] k \in {4, 6} -> "BadRelRelaTableRange"
      [] k \in {5, 7} -> "BadRelRelaTableAlignment"

\* the REL table of the last try_reloc has an entry
HasRel == ~IsZero(LastValue(DT_REL)) /\ Clip(LastValue(DT_RELSZ), Far) >= SizeOfElfRel

\* C21: try_reloc returns the error of the first of its steps that fails, the
\* steps taken in the order base alignment, alignment of the dynamic array, scan
\* of the dynamic array, range and alignment of the REL table, range and
\* alignment of the RELA table, REL entries, RELA entries, callbacks.  A
\* misaligned base is reported whatever the dynamic array holds, no RELA entry
\* is applied while the REL table has an entry, and no callback is invoked
\* before the loop over the RELA entries has ended
C21_StepsInOrder ==
    /\ res.op = "reloc" =>
         /\ \A k \in 1..7 :
              StepFails(k) /\ (\A j \in 1..(k - 1) : ~StepFails(j)) => res.err = StepError(k)
         /\ (\A k \in 1..7 : ~StepFails(k)) /\ HasRel =>
              res.err \in {"BadRelOffset", "UnsupportedRelType", "UnsupportedRelArch"}
         /\ (\A k \in 1..7 : ~StepFails(k)) /\ ~HasRel =>
              res.err \in {"Ok", "MemProtectFailed", "BadRelaOffset", "UnsupportedRelaType",
                           "UnsupportedRelaArch"}
         /\ res.err \notin {"Ok", "MemProtectFailed"} => calls = << >>
    /\ pc \in {"rel", "rela", "protect"} \/ wlog # << >> \/ calls # << >> =>
         \A k \in 1..7 : ~StepFails(k)
    /\ pc \in {"rela", "protect"} \/ wlog # << >> \/ calls # << >> => ~HasRel
    /\ pc = "rela" => calls = << >>

\* try_reloc has returned BadRelRelaTableAlignment for a misaligned REL table
\* beside a RELA table out of range
C21_Witness ==
    /\ res.op = "reloc"
    /\ res.err = "BadRelRelaTableAlignment"
    /\ \A k \in 1..4 : ~StepFails(k)
    /\ StepFails(5) /\ StepFails(6)

\* a table of len bytes at off ends inside the buffer or at its end
RangeFits(off, len) ==
    checked_add(off, len).some /\ Le(checked_add(off, len).v, U64(Len(memL)))

\* the number of entries of size bytes of a table of len bytes at off
EntriesOf(off, len, size) == IF IsZero(off) THEN 0 ELSE Clip(len, Far) \div size

\* C22 as stated: once the scan of the dynamic array has passed, try_reloc
\* returns BadRelRelaTableRange only for a REL or RELA table with a non-zero
\* offset and offset + size > len(mem) (or wrapping), and always for such a REL
\* table; a table that ends at the end of mem is accepted.  A table with offset
\* 0 is empty, and a table has floor(size / element size) entries
C22_TableRangeInclusive ==
    /\ res.op = "reloc" /\ (\A k \in 1..3 : ~StepFails(k)) =>
         /\ res.err = "BadRelRelaTableRange" =>
              \/ ~IsZero(LastValue(DT_REL))
                   /\ ~RangeFits(LastValue(DT_REL), LastValue(DT_RELSZ))
              \/ ~IsZero(LastValue(DT_RELA))
                   /\ ~RangeFits(LastValue(DT_RELA), LastValue(DT_RELASZ))
         /\ ~IsZero(LastValue(DT_REL)) /\ ~RangeFits(LastValue(DT_REL), LastValue(DT_RELSZ)) =>
              res.err = "BadRelRelaTableRange"
    /\ pc \in {"rel", "rela"} =>
         /\ rl.rels.n = EntriesOf(LastValue(DT_REL), LastValue(DT_RELSZ), SizeOfElfRel)
         /\ rl.relas.n = EntriesOf(LastValue(DT_RELA), LastValue(DT_RELASZ), SizeOfElfRela)

\* try_reloc has returned from its loop over a REL table with an entry
RelLoopReturned ==
    /\ res.op = "reloc"
    /\ \A k \in 1..7 : ~StepFails(k)
    /\ HasRel

\* the first entry of the REL table, as try_load left it
FirstRel == ElfRel(memL, Clip(LastValue(DT_REL), Far))

ReturnsNow(err) ==
    /\ pc' = "idle"
    /\ res' = [op |-> "reloc", err |-> err]
    /\ mem' = mem

\* try_reloc goes on to the next RELA entry with the buffer m
GoesOnWith(m) ==
    /\ pc' = "rela"
    /\ rl'.i = rl.i + 1
    /\ mem' = m

\* what the claim C24 gives for a turn of the loop over the RELA entries on the
\* entry rela
RelaHandledAsStated(rela) ==
    IF Le(U64(Len(mem)), rela.r_offset) THEN ReturnsNow("BadRelaOffset")
    ELSE IF r_type(rela.r_info) \in {R_X86_64_NONE, R_X86_64_COPY} THEN GoesOnWith(mem)
    ELSE IF r_type(rela.r_info) = R_X86_64_RELATIVE
      THEN GoesOnWith(Overwrite(mem, Clip(rela.r_offset, Far),
                                wrapping_add(rela.r_addend, rl.base)))
    ELSE ReturnsNow("UnsupportedRelaType")

ErrorsBeforeStores ==
    { "BadBaseAddressAlignment", "BadDynAlignment", "BadRelSize", "BadRelaSize",
      "BadRelRelaTableRange", "BadRelRelaTableAlignment", "UnsupportedRelArch" }

\* C25: when try_reloc fails with BadBaseAddressAlignment, BadDynAlignment,
\* BadRelSize, BadRelaSize, BadRelRelaTableRange, BadRelRelaTableAlignment or
\* UnsupportedRelArch, no store has been made and the buffer is byte for byte as
\* try_load left it
C25_EarlyErrorsLeaveBuffer ==
    res.op = "reloc" /\ res.err \in ErrorsBeforeStores =>
      /\ mem = memL
      /\ wlog = << >>

\* try_reloc has returned UnsupportedRelArch for an image with a REL entry and
\* a RELA table of RELATIVE entries
C25_Witness ==
    /\ res.op = "reloc"
    /\ res.err = "UnsupportedRelArch"
    /\ Clip(LastValue(DT_RELASZ), Far) >= SizeOfElfRela
    /\ IsRelative(ElfRela(memL, Clip(LastValue(DT_RELA), Far)))
    /\ Clip(FirstRel.r_offset, Far) + 8 <= Len(mem)

\* the relocation steps b (base_to_offset) and p (relocate_segments) have
\* succeeded and the buffer holds every store of p
Relocated(b, p) == b.err = "Ok" /\ p.err = "Ok" /\ mem = p.mem

\* the error of the relocation steps b and p alone
StepsResult(b, p) == IF b.err # "Ok" THEN b.err ELSE p.err

\* the part of C26 that compares with the relocation steps b and p of the last
\* try_reloc
CallbackLast(b, p) ==
    /\ calls # << >> => Relocated(b, p)
    /\ res.op = "reloc" /\ res.err = "MemProtectFailed" => calls # << >> /\ Relocated(b, p)
    /\ res.op = "reloc" /\ rl.prot = "None" => res.err = StepsResult(b, p)

\* C26: the callback is invoked only after the base check, the scan, the table
\* checks and every REL and RELA entry have succeeded.  When try_reloc fails in
\* one of those steps there is no invocation, when it returns MemProtectFailed
\* every relocation is in the buffer, and without a callback there is no
\* invocation and the result is that of the relocation steps
C26_CallbackAfterRelocation ==
    rl # NoReloc =>
      /\ calls # << >> => rl.prot = "Some" /\ pc \notin {"rel", "rela"}
      /\ res.op = "reloc" /\ res.err \notin {"Ok", "MemProtectFailed"} => calls = << >>
      /\ NoStrayStore /\ TableUntouched =>
           CallbackLast(base_to_offset(rl.le.mem_align, rl.base),
                        relocate_segments(rl.le, memL, memAddr, rl.base))

\* try_reloc has returned MemProtectFailed from the second invocation of the
\* callback, with two relocations in the buffer
C26_Witness ==
    /\ res = [op |-> "reloc", err |-> "MemProtectFailed"]
    /\ Len(calls) = 2
    /\ Len(wlog) = 2 /\ mem # memL
    /\ NoStrayStore /\ TableUntouched

\* the DYNAMIC header of raw
DynHeader == RawHeaders[CHOOSE i \in Dynamics(RawHeaders) : TRUE]

\* C27: the scan of the dynamic array examines each of its floor(p_memsz / 16)
\* entries and does not end at an entry with tag 0.  A wrong RELENT or RELAENT
\* value anywhere in the array makes try_reloc fail with BadRelSize or
\* BadRelaSize, that of the first such entry, and the REL and RELA tables are
\* those of the last REL, RELSZ, RELA and RELASZ entries of the array
C27_ScanCoversArray ==
    rl # NoReloc =>
      /\ Clip(rl.le.dyns.len, Far) = Clip(DynHeader.p_memsz, Far) \div SizeOfElfDyn
      /\ res.op = "reloc" /\ ~StepFails(1) /\ ~StepFails(2) =>
           /\ StepFails(3) => res.err = StepError(3)
           /\ ~StepFails(3) => res.err \notin {"BadRelSize", "BadRelaSize"}
      /\ pc \in {"rel", "rela"} =>
           /\ rl.rels = [ off |-> LastValue(DT_REL),
                          n   |-> EntriesOf(LastValue(DT_REL), LastValue(DT_RELSZ), SizeOfElfRel) ]
           /\ rl.relas = [ off |-> LastValue(DT_RELA),
                           n   |-> EntriesOf(LastValue(DT_RELA), LastValue(DT_RELASZ),
                                             SizeOfElfRela) ]

\* try_reloc has returned BadRelaSize for a wrong RELAENT value in the fourth
\* entry of an array whose third entry has the tag 0
C27_Witness ==
    /\ res = [op |-> "reloc", err |-> "BadRelaSize"]
    /\ Len(DynEntries) = 4
    /\ IsZero(DynEntries[3].d_tag)
    /\ BadEntSize(4)
    /\ \A i \in 1..3 : ~BadEntSize(i)

---------------------------------------------------------------------------
(* Properties of segments without flags.                                   *)

\* the header h has none of the R, W and X flags
NoFlags(h) == ~HasFlag(h, PF_R) /\ ~HasFlag(h, PF_W) /\ ~HasFlag(h, PF_X)

\* C28: a segment whose p_flags have none of the R, W and X bits is recorded
\* in the protect list with read-execute protection, and the callback is asked
\* for read-execute protection of its range
C28_NoFlagsIsReadExecute ==
    /\ loaded # << >> =>
         \A k \in 1..Len(loaded[1].protect) :
           NoFlags(RecordedHeaders[k]) => loaded[1].protect[k].protect = "RX"
    /\ rl # NoReloc =>
         \A k \in 2..Len(calls) :
           NoFlags(RecordedHeaders[k - 1]) => calls[k].req.prot = "RX"

\* the callback has been asked for the range of a LOAD header without flags and
\* for that of a RELRO header whose p_flags are 8
C28_Witness ==
    /\ Len(calls) = 5
    /\ RecordedHeaders[3].p_type = PT_LOAD /\ RecordedHeaders[3].p_flags = LE(0, 4)
    /\ RecordedHeaders[4].p_type = PT_GNU_RELRO /\ RecordedHeaders[4].p_flags = LE(8, 4)
    /\ calls[4].req.prot = "RX" /\ calls[5].req.prot = "RX"

=============================================================================
